---------------------------- MODULE Spec2Model ----------------------------
(***************************************************************************)
(* A model of the request-orchestration pipeline of dcyfr-ai-chatbot:      *)
(* the ChatEngine (chat / stream), the ConversationManager, the message    *)
(* utilities and the providers the engine drives.                          *)
(*                                                                         *)
(* Text is a sequence of one-character strings, so that length, trimming,  *)
(* splitting and concatenation are computed as the code computes them.     *)
(* JavaScript runs each synchronous segment to completion: an action is    *)
(* the segment of a handler between two awaits (or two yields).            *)
(***************************************************************************)
EXTENDS Integers, Sequences, FiniteSets, TLC

(***************************************************************************)
(* Bounds of the model and identities.                                     *)
(***************************************************************************)
MaxMiddlewares == 2
MaxPlugins == 1
MaxChunks == 2
MaxReads == 2

\* The calls the host issues; each is one chat() or one stream() call.
Requests == {"r1", "r2"}
\* The text of a message the host has stored before the call.
SeedText == <<"o", "l", "d">>
\* Conversation ids a client may supply.
ClientConvIds == {"c1"}
\* crypto.randomUUID() gives an id no other call gets: the call's own name.
randomUUID(r) == r
ConvIds == ClientConvIds \cup {randomUUID(r) : r \in Requests}

MwNames == <<"m1", "m2", "m3", "m4">>
PluginNames == <<"p1", "p2", "p3">>
\* Tool names are text: they are spliced into tool-role messages.
ToolNames == {<<"f">>}
\* A provider may also ask for <<"g">>, which is never registered.

\* Absent optional values (undefined): a text, and a conversation id.
None == <<"undefined">>
NoConvId == "undefined"

HookNames == {"onInit", "onBeforeChat", "onAfterChat", "onError", "onDestroy"}
\* The hook subsets a registered plugin may implement.
PluginShapes == {HookNames, {}, {"onBeforeChat", "onError"}}

\* Priorities a middleware may carry; <<>> is a missing priority.
Priorities == {<<>>, <<-1>>}

\* Message texts a request may carry.
MessageTexts == {<<>>, <<" ">>, <<"h", "i">>}
\* Contents a provider may answer with.
ResponseTexts == {<<>>, <<"o", "k">>}
\* Error texts a blocking middleware may give (None: no error field).
BlockTexts == {None, <<>>, <<"n", "o">>}
\* What a tool's execute may resolve to, and the message of what it may throw.
ToolResultText == <<"4">>
ToolErrorMessage == <<"b", "a", "d">>
\* A chunk payload that is not a string.
NotAString == <<"object">>

\* 'Request blocked by middleware'
RequestBlockedText ==
    <<"R", "e", "q", "u", "e", "s", "t", " ", "b", "l", "o", "c", "k", "e", "d", " ",
      "b", "y", " ", "m", "i", "d", "d", "l", "e", "w", "a", "r", "e">>
\* 'Tool not found: ' and 'Tool error: '
ToolNotFoundPrefix ==
    <<"T", "o", "o", "l", " ", "n", "o", "t", " ", "f", "o", "u", "n", "d", ":", " ">>
ToolErrorPrefix == <<"T", "o", "o", "l", " ", "e", "r", "r", "o", "r", ":", " ">>

ConfigSystemPrompt == <<"s", "y", "s">>
\* config.memory.maxTokens
MemoryMaxTokens == 12

VARIABLES
    initialized,      \* ChatEngine.initialized
    middlewares,      \* ChatEngine.middlewares
    plugins,          \* ChatEngine.plugins
    tools,            \* ChatEngine.tools: name -> "absent" | "noexec" | "exec"
    conversations,    \* ConversationManager.conversations: id -> record | NoConv
    pc,               \* where each call is suspended
    rq,               \* each call's ChatRequest
    loc,              \* each call's local variables
    out,              \* what each call's caller has observed
    trace,            \* per call: the callbacks and store operations it invoked, in order
    yielded,          \* per stream() call: the chunks handed to the consumer, in order
    reader,           \* per stream() call: OpenAIProvider.stream's position and its reader lock
    rateConfig,       \* createRateLimiter: config
    refillRateMs,     \* createRateLimiter: refillRateMs
    buckets,          \* createRateLimiter: buckets, key -> TokenBucket | NoBucket
    clock,            \* what Date.now() returns
    rateLog,          \* the rate limiter's calls so far, in order
    filterOptions,    \* createContentFilter: options
    filterContext,    \* the MiddlewareContext the content filter is called with
    filterOutcome,    \* what the content filter returned and whether it called next
    pipeline,         \* MiddlewarePipeline.middlewares: a Map, in insertion order
    pipelineLog,      \* the use() and remove() calls on the pipeline so far, in order
    pipelineRun,      \* the last MiddlewarePipeline.execute: the middlewares it ran, in order
    truncInput,       \* truncateMessages: the arguments of the call
    truncOutput,      \* truncateMessages: what the call returned
    windowOptions,    \* SlidingWindowMemory.options
    windowStore,      \* SlidingWindowMemory.store: id -> messages
    windowSaved,      \* per id: every message passed to save so far, in order
    summaryOptions,   \* SummaryMemory.options
    summaryStore,     \* SummaryMemory.store: id -> messages
    summaries,        \* SummaryMemory.summaries: id -> text | None
    summarySaves,     \* the save calls on the SummaryMemory so far, in order
    summaryContext,   \* the last SummaryMemory.getContext: its arguments and result
    buffer,           \* TokenStreamer.buffer
    streamerOptions,  \* TokenStreamer.options
    flushTimer,       \* TokenStreamer.flushTimer: whether a timeout is pending
    emitCallback,     \* TokenStreamer.emitCallback: whether one is set
    streamerIO,       \* what was written to the streamer and what its consumer received
    mockOptions,      \* MockProvider.options
    callCount,        \* MockProvider.callCount
    mockCalls,        \* the complete() and stream() calls on the MockProvider, in order
    pmPlugins,        \* PluginManager.plugins: a Map, in insertion order
    pmInitialized,    \* PluginManager.initialized
    pmRun,            \* the PluginManager method in progress and the hooks it invoked
    loggerOptions,    \* createLogger: options
    logEntries,       \* the entries handed to the logger's handler, in order
    loggerRuns,       \* the calls of the logger's execute so far, in order
    abortController,  \* StreamHandler.abortController.signal.aborted
    heartbeatInterval, \* StreamHandler.heartbeatInterval: whether an interval is set
    onChunkCallbacks, \* StreamHandler.onChunkCallbacks: what each callback does
    handling          \* the StreamHandler.handle call: its position, source and consumer

engineVars == <<initialized, middlewares, plugins, tools, conversations>>
callVars == <<pc, rq, loc, out, trace, yielded, reader>>
\* The state of the components that are exercised on their own.
rateVars == <<rateConfig, refillRateMs, buckets, clock, rateLog>>
filterVars == <<filterOptions, filterContext, filterOutcome>>
pipelineVars == <<pipeline, pipelineLog, pipelineRun>>
truncVars == <<truncInput, truncOutput>>
windowVars == <<windowOptions, windowStore, windowSaved>>
summaryVars == <<summaryOptions, summaryStore, summaries, summarySaves, summaryContext>>
streamerVars == <<buffer, streamerOptions, flushTimer, emitCallback, streamerIO>>
mockVars == <<mockOptions, callCount, mockCalls>>
pmVars == <<pmPlugins, pmInitialized, pmRun>>
loggerVars == <<loggerOptions, logEntries, loggerRuns>>
handlerVars == <<abortController, heartbeatInterval, onChunkCallbacks, handling>>
finalVars == <<loggerVars, handlerVars>>
laterVars == <<summaryVars, streamerVars, mockVars, pmVars, finalVars>>
standaloneVars == <<rateVars, filterVars, pipelineVars, truncVars, windowVars, laterVars>>
\* What an action of one component leaves alone.
besidesRate ==
    <<engineVars, callVars, filterVars, pipelineVars, truncVars, windowVars, laterVars>>
besidesFilter ==
    <<engineVars, callVars, rateVars, pipelineVars, truncVars, windowVars, laterVars>>
besidesPipeline ==
    <<engineVars, callVars, rateVars, filterVars, truncVars, windowVars, laterVars>>
besidesTrunc ==
    <<engineVars, callVars, rateVars, filterVars, pipelineVars, windowVars, laterVars>>
besidesWindow ==
    <<engineVars, callVars, rateVars, filterVars, pipelineVars, truncVars, laterVars>>
earlierVars ==
    <<engineVars, callVars, rateVars, filterVars, pipelineVars, truncVars, windowVars>>
besidesSummary == <<earlierVars, streamerVars, mockVars, pmVars, finalVars>>
besidesStreamer == <<earlierVars, summaryVars, mockVars, pmVars, finalVars>>
besidesMock == <<earlierVars, summaryVars, streamerVars, pmVars, finalVars>>
besidesPm == <<earlierVars, summaryVars, streamerVars, mockVars, finalVars>>
middleVars == <<summaryVars, streamerVars, mockVars, pmVars>>
besidesLogger == <<earlierVars, middleVars, handlerVars>>
besidesHandler == <<earlierVars, middleVars, loggerVars>>
vars == <<initialized, middlewares, plugins, tools, conversations,
          pc, rq, loc, out, trace, yielded, reader, standaloneVars>>

(***************************************************************************)
(* Message utilities (src/chat/message.ts).                                *)
(***************************************************************************)
CeilDiv(a, b) == (a + b - 1) \div b

RECURSIVE SeqSum(_)
SeqSum(s) == IF s = <<>> THEN 0 ELSE Head(s) + SeqSum(Tail(s))

SelectRole(msgs, keepSystem) ==
    SelectSeq(msgs, LAMBDA m : (m.role = "system") = keepSystem)

\* createMessage: a fresh id (the creating call and what it created), the
\* role and the content; no name unless one is passed.
createMessage(id, role, content) ==
    [id |-> id, role |-> role, content |-> content, name |-> None]

estimateTokens(text) == CeilDiv(Len(text), 4)

\* estimateMessagesTokens with a flat extra token for a name.
estimateMessagesTokensFlatName(msgs) ==
    SeqSum([i \in 1..Len(msgs) |->
        estimateTokens(msgs[i].content) + 4
        + (IF msgs[i].name # None /\ msgs[i].name # <<>> THEN 1 ELSE 0)])

estimateMessagesTokens(msgs) ==
    SeqSum([i \in 1..Len(msgs) |->
        estimateTokens(msgs[i].content) + 4
        + (IF msgs[i].name # None /\ msgs[i].name # <<>>
           THEN estimateTokens(msgs[i].name) + 1 ELSE 0)])

IsWhitespace(ch) == ch \in {" ", "\t", "\n"}

\* content.trim().length === 0
TrimIsEmpty(text) == \A i \in 1..Len(text) : IsWhitespace(text[i])

MaxContentLength == 100000

validateMessageContent(content) ==
    IF content = <<>> \/ TrimIsEmpty(content) THEN FALSE
    ELSE IF Len(content) > MaxContentLength THEN FALSE
    ELSE TRUE

\* The walk of truncateMessages from the most recent message backwards:
\* the number of trailing messages of `rest` that are kept.
RECURSIVE KeptSuffix(_, _, _, _)
KeptSuffix(rest, i, currentTokens, remainingBudget) ==
    IF i < 1 THEN 0
    ELSE LET msgTokens == estimateTokens(rest[i].content) + 4
         IN  IF currentTokens + msgTokens > remainingBudget THEN 0
             ELSE 1 + KeptSuffix(rest, i - 1, currentTokens + msgTokens, remainingBudget)

\* Faulty variant of truncateMessages: a message that does not fit is
\* skipped and the walk goes on.
truncateMessagesSparse(msgs, maxTokens) ==
    LET systemMessages == SelectRole(msgs, TRUE)
        nonSystemMessages == SelectRole(msgs, FALSE)
        remainingBudget == maxTokens - estimateMessagesTokens(systemMessages)
    IN  systemMessages \o
        SelectSeq(nonSystemMessages,
                  LAMBDA m : estimateTokens(m.content) + 4 <= remainingBudget)

truncateMessages(msgs, maxTokens) ==
    LET systemMessages == SelectRole(msgs, TRUE)
        nonSystemMessages == SelectRole(msgs, FALSE)
        remainingBudget == maxTokens - estimateMessagesTokens(systemMessages)
        n == Len(nonSystemMessages)
        k == KeptSuffix(nonSystemMessages, n, 0, remainingBudget)
    IN  IF remainingBudget <= 0 THEN systemMessages
        ELSE systemMessages \o SubSeq(nonSystemMessages, n - k + 1, n)

(***************************************************************************)
(* ConversationManager (src/chat/message.ts).                              *)
(***************************************************************************)
NoConv == [exists |-> FALSE]

\* create: an empty conversation under the given id.
create(convs, id, systemPrompt) ==
    [convs EXCEPT ![id] =
        [exists |-> TRUE, messages |-> <<>>, systemPrompt |-> systemPrompt,
         totalTokens |-> 0, messageCount |-> 0]]

getOrCreate(convs, id, systemPrompt) ==
    IF convs[id].exists THEN convs ELSE create(convs, id, systemPrompt)

\* Faulty variant of addMessage: messageCount is not brought up to date.
addMessageStaleCount(convs, id, message) ==
    LET c == convs[id]
    IN  [convs EXCEPT ![id] =
            [c EXCEPT !.messages = Append(c.messages, message),
                      !.totalTokens = c.totalTokens + estimateTokens(message.content)]]

\* addMessage on an id that exists (the engine has called getOrCreate).
addMessage(convs, id, message) ==
    LET c == convs[id]
        pushed == Append(c.messages, message)
    IN  [convs EXCEPT ![id] =
            [c EXCEPT !.messages = pushed,
                      !.messageCount = Len(pushed),
                      !.totalTokens = c.totalTokens + estimateTokens(message.content)]]

getMessages(convs, id) ==
    IF convs[id].exists THEN convs[id].messages ELSE <<>>


(***************************************************************************)
(* ChatEngine (src/chat/engine.ts): configuration.                         *)
(***************************************************************************)
Prio(m) == IF m.priority = <<>> THEN 0 ELSE m.priority[1]

RECURSIVE InsertBeforeEqual(_, _)
InsertBeforeEqual(sorted, m) ==
    IF sorted = <<>> THEN <<m>>
    ELSE LET last == sorted[Len(sorted)]
         IN  IF Prio(last) < Prio(m) THEN Append(sorted, m)
             ELSE Append(InsertBeforeEqual(SubSeq(sorted, 1, Len(sorted) - 1), m), last)

\* Array.prototype.sort with (a, b) => prio(a) - prio(b): a stable sort.
RECURSIVE InsertByPriority(_, _)
InsertByPriority(sorted, m) ==
    IF sorted = <<>> THEN <<m>>
    ELSE LET last == sorted[Len(sorted)]
         IN  IF Prio(last) <= Prio(m) THEN Append(sorted, m)
             ELSE Append(InsertByPriority(SubSeq(sorted, 1, Len(sorted) - 1), m), last)

RECURSIVE SortByPriority(_)
SortByPriority(ms) ==
    IF ms = <<>> THEN <<>>
    ELSE InsertByPriority(SortByPriority(SubSeq(ms, 1, Len(ms) - 1)), ms[Len(ms)])

\* The host configures the engine before it issues calls.
Configuring == \A r \in Requests : pc[r] = "idle"

use(priority) ==
    /\ Configuring
    /\ Len(middlewares) < MaxMiddlewares
    /\ LET m == [name |-> MwNames[Len(middlewares) + 1], priority |-> priority]
       IN  middlewares' = SortByPriority(Append(middlewares, m))
    /\ UNCHANGED <<initialized, plugins, tools, conversations>>
    /\ UNCHANGED callVars
    /\ UNCHANGED standaloneVars

registerPlugin(hooks) ==
    /\ Configuring
    /\ Len(plugins) < MaxPlugins
    /\ plugins' = Append(plugins, [name |-> PluginNames[Len(plugins) + 1], hooks |-> hooks])
    /\ UNCHANGED <<initialized, middlewares, tools, conversations>>
    /\ UNCHANGED callVars
    /\ UNCHANGED standaloneVars

registerTool(name, hasExecute) ==
    /\ Configuring
    /\ tools[name] = "absent"
    /\ tools' = [tools EXCEPT ![name] = IF hasExecute THEN "exec" ELSE "noexec"]
    /\ UNCHANGED <<initialized, middlewares, plugins, conversations>>
    /\ UNCHANGED callVars
    /\ UNCHANGED standaloneVars

(***************************************************************************)
(* ChatEngine: the segments of chat() and stream().  A segment maps the    *)
(* bundle s = [pc, loc, out, tr, yl, rd, convs, init] of its call (and of   *)
(* the shared engine state) to the bundle at its next await or yield.      *)
(***************************************************************************)
Ev(e, who, res) == [ev |-> e, who |-> who, res |-> res]

Log(s, e, who, res) == [s EXCEPT !.tr = Append(@, Ev(e, who, res))]

MsgId(r, kind, n) == [req |-> r, kind |-> kind, n |-> n]

\* The first plugin at or after position i that implements `hook` (0: none).
NextWith(hook, i) ==
    LET having == {k \in i..Len(plugins) : hook \in plugins[k].hooks}
    IN  IF having = {} THEN 0 ELSE CHOOSE k \in having : \A j \in having : k <= j

Bundle(r) ==
    [pc |-> pc[r], loc |-> loc[r], out |-> out[r], tr |-> trace[r],
     yl |-> yielded[r], rd |-> reader[r],
     convs |-> conversations, init |-> initialized]

\* The bundle s becomes the state of call r and of the engine.
CommitEngine(r, s) ==
    /\ pc' = [pc EXCEPT ![r] = s.pc]
    /\ loc' = [loc EXCEPT ![r] = s.loc]
    /\ out' = [out EXCEPT ![r] = s.out]
    /\ trace' = [trace EXCEPT ![r] = s.tr]
    /\ yielded' = [yielded EXCEPT ![r] = s.yl]
    /\ reader' = [reader EXCEPT ![r] = s.rd]
    /\ conversations' = s.convs
    /\ initialized' = s.init
    /\ UNCHANGED <<middlewares, plugins, tools>>

Commit(r, s) ==
    /\ CommitEngine(r, s)
    /\ UNCHANGED standaloneVars

\* The call ends by throwing `err` to its caller.
Throw(s, err) ==
    [s EXCEPT !.pc = "done", !.out.status = "threw", !.out.error = err]

\* init(): the loop over the plugins' onInit hooks, from plugin i on.
InitFrom(s, i) ==
    LET k == NextWith("onInit", i)
    IN  IF k = 0 THEN [s EXCEPT !.init = TRUE, !.pc = "initDone"]
        ELSE Log([s EXCEPT !.pc = "init", !.loc.idx = k], "onInit", plugins[k].name, "call")

\* executeMiddleware's next(): run the middleware at currentIndex, or proceed.
CallNext(s, currentIndex) ==
    IF currentIndex >= Len(middlewares)
    THEN [s EXCEPT !.pc = "pipelineDone",
                   !.loc.mwResult = [proceed |-> TRUE, error |-> None]]
    ELSE Log([s EXCEPT !.pc = "mw", !.loc.idx = currentIndex + 1],
             "middleware", middlewares[currentIndex + 1].name, "call")

executeMiddleware(s) ==
    IF Len(middlewares) = 0
    THEN [s EXCEPT !.pc = "pipelineDone",
                   !.loc.mwResult = [proceed |-> TRUE, error |-> None]]
    ELSE CallNext(s, 0)

\* chat(): the loop over the plugins' onBeforeChat hooks, then the pipeline.
BeforeFrom(s, i) ==
    LET k == NextWith("onBeforeChat", i)
    IN  IF k = 0 THEN executeMiddleware(s)
        ELSE Log([s EXCEPT !.pc = "before", !.loc.idx = k],
                 "onBeforeChat", plugins[k].name, "call")

\* Faulty variant of ResolveConvId: requests without an id share one id.
ResolveConvIdShared(req, r) ==
    IF req.conversationId = NoConvId THEN "c1" ELSE req.conversationId

ResolveConvId(req, r) ==
    IF req.conversationId = NoConvId THEN randomUUID(r) ELSE req.conversationId

\* Faulty variant of ChatSetup: the user message is stored before the
\* hooks and the pipeline run.
ChatSetupStoresFirst(r, s, req) ==
    LET id == ResolveConvId(req, r)
        userMessage == createMessage(MsgId(r, "user", 0), "user", req.message)
        s1 == [s EXCEPT !.convs = addMessage(getOrCreate(@, id, ConfigSystemPrompt),
                                             id, userMessage),
                        !.loc.conv = id]
    IN  BeforeFrom(Log(s1, "getOrCreate", id, ""), 1)

\* chat() lines 71-90: resolve the conversation, then the before hooks.
ChatSetup(r, s, req) ==
    LET id == ResolveConvId(req, r)
        s1 == [s EXCEPT !.convs = getOrCreate(@, id, ConfigSystemPrompt),
                        !.loc.conv = id]
    IN  BeforeFrom(Log(s1, "getOrCreate", id, ""), 1)

buildProviderMessages(r, convs, id) ==
    IF ~convs[id].exists THEN <<>>
    ELSE LET systemPrompt == IF convs[id].systemPrompt = None
                             THEN ConfigSystemPrompt ELSE convs[id].systemPrompt
             head == IF systemPrompt # None /\ systemPrompt # <<>>
                     THEN <<createMessage(MsgId(r, "system", 0), "system", systemPrompt)>>
                     ELSE <<>>
         IN  head \o truncateMessages(getMessages(convs, id), MemoryMaxTokens)

\* Faulty variant of AddUserAndBuild: the user message is not stored.
BuildWithoutUser(r, s, req) ==
    [s EXCEPT !.loc.messages = buildProviderMessages(r, s.convs, s.loc.conv)]

\* Append the call's user message and build the provider request.
AddUserAndBuild(r, s, req) ==
    LET userMessage == createMessage(MsgId(r, "user", 0), "user", req.message)
        convs1 == addMessage(s.convs, s.loc.conv, userMessage)
        s1 == Log([s EXCEPT !.convs = convs1], "addMessage", "user", "")
    IN  [s1 EXCEPT !.loc.messages = buildProviderMessages(r, convs1, s.loc.conv)]

\* Faulty variant of BlockText: `||` instead of `??`.
BlockTextOr(error) == IF error = None \/ error = <<>> THEN RequestBlockedText ELSE error

\* middlewareResult.error ?? 'Request blocked by middleware'
BlockText(error) == IF error = None THEN RequestBlockedText ELSE error

\* Faulty variant of AfterPipeline: the pipeline's verdict is not consulted.
AfterPipelineUnchecked(r, s, req) ==
    Log([AddUserAndBuild(r, s, req) EXCEPT !.pc = "awaitComplete"],
        "provider.complete", "", "call")

\* chat() lines 94-123, after the pipeline has resolved.
AfterPipeline(r, s, req) ==
    IF ~s.loc.mwResult.proceed
    THEN LET text == BlockText(s.loc.mwResult.error)
         IN  [s EXCEPT !.pc = "done", !.out.status = "returned",
                       !.out.content = text, !.out.finishReason = "error",
                       !.out.conversationId = s.loc.conv]
    ELSE Log([AddUserAndBuild(r, s, req) EXCEPT !.pc = "awaitComplete"],
             "provider.complete", "", "call")

\* The catch block of chat(): the onError hooks from plugin i on, then rethrow.
ErrorFrom(s, i) ==
    LET k == NextWith("onError", i)
    IN  IF k = 0 THEN Throw(s, s.loc.err)
        ELSE Log([s EXCEPT !.pc = "onError", !.loc.idx = k],
                 "onError", plugins[k].name, "call")

Catch(s, err) == ErrorFrom([s EXCEPT !.loc.err = err], 1)

\* chat() lines 142-157: the onAfterChat hooks from plugin i on, then return.
AfterFrom(s, i) ==
    LET k == NextWith("onAfterChat", i)
    IN  IF k = 0
        THEN [s EXCEPT !.pc = "done", !.out.status = "returned",
                       !.out.content = s.loc.response.content,
                       !.out.finishReason = s.loc.response.finishReason,
                       !.out.toolCalls = s.loc.response.toolCalls,
                       !.out.conversationId = s.loc.conv]
        ELSE Log([s EXCEPT !.pc = "after", !.loc.idx = k],
                 "onAfterChat", plugins[k].name, "call")

ToolState(name) == IF name \in ToolNames THEN tools[name] ELSE "absent"

ToolMessage(r, i, text) == createMessage(MsgId(r, "tool", i), "tool", text)

\* handleToolCalls: the loop from tool call i on, up to its next await.
RECURSIVE ToolsFrom(_, _, _)
ToolsFrom(r, s, i) ==
    IF i > Len(s.loc.toolCalls) THEN AfterFrom(s, 1)
    ELSE LET name == s.loc.toolCalls[i]
         IN  IF ToolState(name) # "exec"
             THEN ToolsFrom(r,
                    Log([s EXCEPT !.convs = addMessage(@, s.loc.conv,
                                     ToolMessage(r, i, ToolNotFoundPrefix \o name))],
                        "addMessage", "tool", "not found"),
                    i + 1)
             ELSE Log([s EXCEPT !.pc = "tool", !.loc.idx = i], "tool.execute", "", "call")

\* chat() lines 125-140, after provider.complete has resolved.
AfterComplete(r, s, content, toolCalls) ==
    LET finishReason == IF Len(toolCalls) > 0 THEN "tool_calls" ELSE "stop"
        assistantMessage == createMessage(MsgId(r, "assistant", 0), "assistant", content)
        s1 == Log([s EXCEPT !.convs = addMessage(@, s.loc.conv, assistantMessage),
                            !.loc.toolCalls = toolCalls,
                            !.loc.response = [content |-> content,
                                              finishReason |-> finishReason,
                                              toolCalls |-> toolCalls]],
                  "addMessage", "assistant", "")
    IN  IF Len(toolCalls) > 0 THEN ToolsFrom(r, s1, 1) ELSE AfterFrom(s1, 1)


(***************************************************************************)
(* ChatEngine: the actions.  Every callback the engine awaits (a plugin    *)
(* hook, a middleware, the provider, a tool) may resolve or throw.  A      *)
(* middleware obeys the pipeline contract: it returns next()'s result, or  *)
(* returns proceed=false without calling next, or throws.  Hooks and       *)
(* middlewares do not write to the conversation store.                     *)
(***************************************************************************)
IdleRequest == [kind |-> "none", conversationId |-> NoConvId, message |-> <<>>]

IdleLocals ==
    [conv |-> "", idx |-> 0, mwResult |-> [proceed |-> TRUE, error |-> None],
     err |-> "", toolCalls |-> <<>>,
     response |-> [content |-> <<>>, finishReason |-> "", toolCalls |-> <<>>],
     messages |-> <<>>, fullContent |-> <<>>, produced |-> <<>>, prov |-> "none"]

IdleOutcome ==
    [status |-> "pending", content |-> <<>>, finishReason |-> "", toolCalls |-> <<>>,
     conversationId |-> "", error |-> ""]

\* The toolCalls a provider response may carry (names, in order).
ToolCallSeqs == {<<>>, <<<<"f">>>>, <<<<"g">>, <<"f">>>>}

Chunks ==
    {[type |-> "token", data |-> <<"a">>], [type |-> "token", data |-> <<" ", "b">>],
     [type |-> "token", data |-> <<>>], [type |-> "token", data |-> NotAString],
     [type |-> "done", data |-> None]}

IsString(data) == data # NotAString /\ data # None

\* stream() lines 177-201: resolve the conversation, append the user
\* message, build the request and ask the provider's stream for a chunk.
StreamSetup(r, s, req) ==
    LET id == ResolveConvId(req, r)
        s1 == Log([s EXCEPT !.convs = getOrCreate(@, id, ConfigSystemPrompt),
                            !.loc.conv = id],
                  "getOrCreate", id, "")
    IN  Log([AddUserAndBuild(r, s1, req) EXCEPT !.pc = "awaitChunk", !.loc.prov = "open"],
            "provider.stream", "", "call")

Setup(r, s, req) ==
    IF req.kind = "chat" THEN ChatSetup(r, s, req) ELSE StreamSetup(r, s, req)

\* A call starts: chat(request), or stream(request) and the consumer's first pull,
\* with a conversation id and a message out of the given sets.
StartWith(r, kind, cids, texts) ==
    /\ pc[r] = "idle"
    /\ \E cid \in cids, msg \in texts :
         LET req == [kind |-> kind, conversationId |-> cid, message |-> msg]
         IN  /\ rq' = [rq EXCEPT ![r] = req]
             /\ Commit(r, IF initialized THEN Setup(r, Bundle(r), req)
                          ELSE InitFrom(Bundle(r), 1))

Start(r, kind) == StartWith(r, kind, ClientConvIds \cup {NoConvId}, MessageTexts)

chat(r) == Start(r, "chat")

stream(r) == Start(r, "stream")

\* init(): the awaited onInit hook settles.
InitHookSettles(r) ==
    /\ pc[r] = "init"
    /\ \E ok \in BOOLEAN :
         Commit(r, IF ok THEN InitFrom(Bundle(r), loc[r].idx + 1)
                   ELSE Throw(Bundle(r), "onInit"))
    /\ UNCHANGED rq

\* `await this.init()` resumes.
InitResolved(r) ==
    /\ pc[r] = "initDone"
    /\ Commit(r, Setup(r, Bundle(r), rq[r]))
    /\ UNCHANGED rq

BeforeChatSettles(r) ==
    /\ pc[r] = "before"
    /\ \E ok \in BOOLEAN :
         Commit(r, IF ok THEN BeforeFrom(Bundle(r), loc[r].idx + 1)
                   ELSE Throw(Bundle(r), "onBeforeChat"))
    /\ UNCHANGED rq

\* The running middleware (position loc.idx, so currentIndex = loc.idx) acts.
MiddlewareCallsNext(r) ==
    /\ pc[r] = "mw"
    /\ Commit(r, CallNext(Log(Bundle(r), "middleware", middlewares[loc[r].idx].name, "next"),
                          loc[r].idx))
    /\ UNCHANGED rq

MiddlewareBlocks(r) ==
    /\ pc[r] = "mw"
    /\ \E error \in BlockTexts :
         Commit(r, [Log(Bundle(r), "middleware", middlewares[loc[r].idx].name, "block")
                       EXCEPT !.pc = "pipelineDone",
                              !.loc.mwResult = [proceed |-> FALSE, error |-> error]])
    /\ UNCHANGED rq

MiddlewareThrows(r) ==
    /\ pc[r] = "mw"
    /\ Commit(r, Throw(Log(Bundle(r), "middleware", middlewares[loc[r].idx].name, "throw"),
                       "middleware"))
    /\ UNCHANGED rq

\* `await this.executeMiddleware(context)` resumes.
PipelineResolved(r) ==
    /\ pc[r] = "pipelineDone"
    /\ Commit(r, AfterPipeline(r, Bundle(r), rq[r]))
    /\ UNCHANGED rq

CompleteResolves(r) ==
    /\ pc[r] = "awaitComplete"
    /\ \E content \in ResponseTexts, toolCalls \in ToolCallSeqs :
         Commit(r, AfterComplete(r, Log(Bundle(r), "provider.complete", "", "ok"),
                                 content, toolCalls))
    /\ UNCHANGED rq

CompleteThrows(r) ==
    /\ pc[r] = "awaitComplete"
    /\ Commit(r, Catch(Log(Bundle(r), "provider.complete", "", "throw"), "provider"))
    /\ UNCHANGED rq

\* handleToolCalls: the awaited tool.execute settles; its failure is caught.
ToolSettles(r) ==
    /\ pc[r] = "tool"
    /\ \E ok \in BOOLEAN :
         LET s == Bundle(r)
             text == IF ok THEN ToolResultText ELSE ToolErrorPrefix \o ToolErrorMessage
             s1 == Log([s EXCEPT !.convs = addMessage(@, s.loc.conv,
                                              ToolMessage(r, s.loc.idx, text))],
                       "addMessage", "tool", IF ok THEN "result" ELSE "error")
         IN  Commit(r, ToolsFrom(r, s1, s.loc.idx + 1))
    /\ UNCHANGED rq

AfterChatSettles(r) ==
    /\ pc[r] = "after"
    /\ \E ok \in BOOLEAN :
         Commit(r, IF ok THEN AfterFrom(Bundle(r), loc[r].idx + 1)
                   ELSE Catch(Bundle(r), "onAfterChat"))
    /\ UNCHANGED rq

ErrorHookSettles(r) ==
    /\ pc[r] = "onError"
    /\ \E ok \in BOOLEAN :
         Commit(r, IF ok THEN ErrorFrom(Bundle(r), loc[r].idx + 1)
                   ELSE Throw(Bundle(r), "onError"))
    /\ UNCHANGED rq

\* Faulty variant of OnChunk: accumulates every token payload, string or not.
OnChunkAnyPayload(s, chunk) ==
    LET full == IF chunk.type = "token" /\ chunk.data # None
                THEN s.loc.fullContent \o chunk.data ELSE s.loc.fullContent
    IN  [s EXCEPT !.pc = "yielded",
                  !.loc.fullContent = full,
                  !.yl = Append(@, chunk)]

\* stream() lines 202-205: the provider's stream has produced `chunk`; the
\* engine accumulates its text and yields it to the consumer.
OnChunk(s, chunk) ==
    LET full == IF chunk.type = "token" /\ IsString(chunk.data)
                THEN s.loc.fullContent \o chunk.data ELSE s.loc.fullContent
    IN  [s EXCEPT !.pc = "yielded",
                  !.loc.fullContent = full,
                  !.yl = Append(@, chunk)]

\* The provider's stream yields `chunk` into the engine's for-await loop
\* (loc.produced: everything the provider has yielded, in order).
Produce(s, chunk) == OnChunk([s EXCEPT !.loc.produced = Append(@, chunk)], chunk)

\* Faulty variant of OnExhausted: the onAfterChat hooks are run as in chat().
OnExhaustedRunsAfterChat(r, s) ==
    LET assistantMessage ==
            createMessage(MsgId(r, "assistant", 0), "assistant", s.loc.fullContent)
        s1 == IF s.loc.fullContent # <<>>
              THEN Log([s EXCEPT !.convs = addMessage(@, s.loc.conv, assistantMessage)],
                       "addMessage", "assistant", "")
              ELSE s
    IN  AfterFrom([s1 EXCEPT !.loc.prov = "finished"], 1)

\* stream() lines 208-215: the provider's stream is exhausted.
OnExhausted(r, s) ==
    LET assistantMessage ==
            createMessage(MsgId(r, "assistant", 0), "assistant", s.loc.fullContent)
        s1 == IF s.loc.fullContent # <<>>
              THEN Log([s EXCEPT !.convs = addMessage(@, s.loc.conv, assistantMessage)],
                       "addMessage", "assistant", "")
              ELSE s
    IN  [s1 EXCEPT !.pc = "done", !.loc.prov = "finished", !.out.status = "exhausted"]

\* The provider's stream throws: the error leaves the for-await and stream().
OnStreamError(s) == Throw([s EXCEPT !.loc.prov = "threw"], "provider")

\* A provider supplied by the host: its stream yields any chunk, ends or throws.
ProviderYields(r) ==
    /\ pc[r] = "awaitChunk"
    /\ reader[r].at = "none"
    /\ Len(loc[r].produced) < MaxChunks
    /\ \E chunk \in Chunks : Commit(r, Produce(Bundle(r), chunk))
    /\ UNCHANGED rq

ProviderReturns(r) ==
    /\ pc[r] = "awaitChunk"
    /\ reader[r].at = "none"
    /\ Commit(r, OnExhausted(r, Bundle(r)))
    /\ UNCHANGED rq

\* Faulty variant of ProviderThrows: the text received so far is stored
\* before the error leaves stream().
ProviderThrowsAfterSaving(r) ==
    /\ pc[r] = "awaitChunk"
    /\ reader[r].at = "none"
    /\ Commit(r, OnStreamError(OnExhausted(r, Bundle(r))))
    /\ UNCHANGED rq

ProviderThrows(r) ==
    /\ pc[r] = "awaitChunk"
    /\ reader[r].at = "none"
    /\ Commit(r, OnStreamError(Bundle(r)))
    /\ UNCHANGED rq

(***************************************************************************)
(* OpenAIProvider.stream (src/types/index.ts): an async generator.  Its    *)
(* position `at` is "fetch" (awaiting fetchCompletion), "read" (awaiting   *)
(* reader.read()), a yield ("noBody": line 386, "token": line 409,         *)
(* "doneInTry": line 405, "doneTail": line 417) or "ended"; "none" when    *)
(* the engine's provider is not an OpenAIProvider.  `locked` is the lock   *)
(* that response.body.getReader() takes and reader.releaseLock() releases. *)
(***************************************************************************)
NoReader == [at |-> "none", locked |-> FALSE, lines |-> <<>>, reads |-> 0]

FreshReader == [at |-> "fetch", locked |-> FALSE, lines |-> <<>>, reads |-> 0]

NoBodyText == <<"N", "o", " ", "b", "o", "d", "y">>

\* parseStreamLine's results for the lines of one read: null (skipped),
\* 'done', or the token's content.
LineResults == {"null", "done", "a"}

ReadBatches ==
    {<<>>} \cup {<<x>> : x \in LineResults}
           \cup {<<x, y>> : x \in LineResults, y \in LineResults}

createStreamChunk(type, data) == [type |-> type, data |-> data]

\* Faulty variant of GeneratorReturn: return() that leaves without running
\* the finally block.
ReturnSkipsFinally(rd) ==
    IF rd.at = "none" THEN rd ELSE [rd EXCEPT !.at = "ended"]

\* return() on the suspended generator: a yield inside the try block runs
\* the finally block (reader.releaseLock()) on the way out.
GeneratorReturn(rd) ==
    IF rd.at = "none" THEN rd
    ELSE IF rd.at \in {"token", "doneInTry"}
         THEN [rd EXCEPT !.at = "ended", !.locked = FALSE]
         ELSE [rd EXCEPT !.at = "ended"]

\* Lines 398-411: the for loop over the parsed lines, up to the next yield
\* or, once the lines are used up, the next reader.read().
RECURSIVE RunLines(_)
RunLines(s) ==
    IF s.rd.lines = <<>> THEN [s EXCEPT !.pc = "awaitChunk", !.rd.at = "read"]
    ELSE LET chunk == Head(s.rd.lines)
             s1 == [s EXCEPT !.rd.lines = Tail(@)]
         IN  IF chunk = "done"
             THEN Produce([s1 EXCEPT !.rd.at = "doneInTry"], createStreamChunk("done", None))
             ELSE IF chunk # "null"
             THEN Produce([s1 EXCEPT !.rd.at = "token"], createStreamChunk("token", <<chunk>>))
             ELSE RunLines(s1)

\* Lines 382-388: fetchCompletion settles: it throws (network failure,
\* timeout, HTTP error status), or the response has no body, or a reader
\* is taken on the body.
FetchSettles(r) ==
    /\ pc[r] = "awaitChunk"
    /\ reader[r].at = "fetch"
    /\ \E outcome \in {"throws", "noBody", "ok"} :
         LET s == Bundle(r)
         IN  Commit(r,
               IF outcome = "throws" THEN OnStreamError([s EXCEPT !.rd.at = "ended"])
               ELSE IF outcome = "noBody"
               THEN Produce([s EXCEPT !.rd.at = "noBody"],
                            createStreamChunk("error", NoBodyText))
               ELSE [s EXCEPT !.rd.at = "read", !.rd.locked = TRUE])
    /\ UNCHANGED rq

\* Lines 394-415: reader.read() settles: it rejects, or reports the end of
\* the body, or delivers bytes that decode to some lines.
ReadSettles(r) ==
    /\ pc[r] = "awaitChunk"
    /\ reader[r].at = "read"
    /\ \/ Commit(r, OnStreamError([Bundle(r) EXCEPT !.rd.at = "ended",
                                                    !.rd.locked = FALSE]))
       \/ Commit(r, Produce([Bundle(r) EXCEPT !.rd.at = "doneTail", !.rd.locked = FALSE],
                            createStreamChunk("done", None)))
       \/ /\ reader[r].reads < MaxReads
          /\ \E lines \in ReadBatches :
               Commit(r, RunLines([Bundle(r) EXCEPT !.rd.lines = lines,
                                                    !.rd.reads = @ + 1]))
    /\ UNCHANGED rq

\* The engine has asked for the next chunk: the generator resumes after
\* the yield it was suspended at.
GeneratorResumes(r) ==
    /\ pc[r] = "awaitChunk"
    /\ reader[r].at \in {"noBody", "token", "doneInTry", "doneTail"}
    /\ LET s == Bundle(r)
       IN  Commit(r,
             IF s.rd.at = "token" THEN RunLines(s)
             ELSE IF s.rd.at = "doneInTry"
             THEN OnExhausted(r, [s EXCEPT !.rd.at = "ended", !.rd.locked = FALSE])
             ELSE OnExhausted(r, [s EXCEPT !.rd.at = "ended"]))
    /\ UNCHANGED rq

\* The consumer pulls the next chunk: stream() resumes after its yield.
ConsumerNext(r) ==
    /\ pc[r] = "yielded"
    /\ Commit(r, [Bundle(r) EXCEPT !.pc = "awaitChunk"])
    /\ UNCHANGED rq

\* The consumer breaks out of its loop: return() on stream(), which is
\* suspended at the yield inside for-await, so the provider's iterator is
\* closed (its return() runs its finally blocks).
ConsumerBreak(r) ==
    /\ pc[r] = "yielded"
    /\ Commit(r, [Bundle(r) EXCEPT !.pc = "done", !.loc.prov = "closed",
                                   !.rd = GeneratorReturn(@),
                                   !.out.status = "broken"])
    /\ UNCHANGED rq

\* The host stores a message through the engine's public ConversationManager:
\* conversations.getOrCreate(id) and conversations.addMessage(id, message).
seedConversation(id) ==
    /\ Configuring
    /\ ~conversations[id].exists
    /\ conversations' =
          addMessage(getOrCreate(conversations, id, None), id,
                     createMessage(MsgId("host", "user", 0), "user", SeedText))
    /\ UNCHANGED <<initialized, middlewares, plugins, tools>>
    /\ UNCHANGED callVars
    /\ UNCHANGED standaloneVars

\* No rate limiter has been created.
NoBucket == [exists |-> FALSE, tokens |-> 0, lastRefill |-> 0]

\* The conversation ids the rate limiter sees (context.conversation.id).
RateKeys == {"c1", "c2"}

NoLimiter ==
    /\ rateConfig = [windowMs |-> 0, maxRequests |-> 0]
    /\ refillRateMs = [m |-> <<0, 0, 0, 0>>, e |-> 0]
    /\ buckets = [k \in RateKeys |-> NoBucket]
    /\ clock = 0
    /\ rateLog = <<>>

\* No content filter has been created.
NoFilter ==
    /\ filterOptions = [rules |-> <<>>, useDefaults |-> "undefined", blockSeverity |-> "undefined"]
    /\ filterContext = [message |-> "", metadata |-> <<>>]
    /\ filterOutcome = [returned |-> FALSE]

\* new MiddlewarePipeline()
NoPipeline ==
    /\ pipeline = <<>>
    /\ pipelineLog = <<>>
    /\ pipelineRun = [ran |-> FALSE, order |-> <<>>, proceed |-> TRUE]

\* truncateMessages has not been called.
NoTruncation ==
    /\ truncInput = [messages |-> <<>>, maxTokens |-> 0]
    /\ truncOutput = [returned |-> FALSE, result |-> <<>>]

\* No SlidingWindowMemory has been created.
WindowIds == {"c1", "c2"}

NoWindow ==
    /\ windowOptions = [windowSize |-> 0, keepSystemMessages |-> TRUE]
    /\ windowStore = [id \in WindowIds |-> <<>>]
    /\ windowSaved = [id \in WindowIds |-> <<>>]

\* No SummaryMemory has been created.
SummaryIds == {"c1"}

NoContext == [returned |-> FALSE, maxTokens |-> 0, loaded |-> <<>>, result |-> <<>>]

NoSummaryMemory ==
    /\ summaryOptions = [recentCount |-> 0, summarizer |-> "default"]
    /\ summaryStore = [id \in SummaryIds |-> <<>>]
    /\ summaries = [id \in SummaryIds |-> None]
    /\ summarySaves = <<>>
    /\ summaryContext = NoContext

\* No TokenStreamer has been created.
NoIO ==
    [written |-> <<>>, writes |-> 0, returned |-> <<>>, emitted |-> <<>>, finished |-> FALSE]

NoStreamer ==
    /\ buffer = <<>>
    /\ streamerOptions = [bufferSize |-> 0, wordBoundary |-> FALSE]
    /\ flushTimer = FALSE
    /\ emitCallback = FALSE
    /\ streamerIO = NoIO

\* No MockProvider has been created.
NoMock ==
    /\ mockOptions = [defaultResponse |-> <<>>, responses |-> <<>>,
                      simulateErrors |-> FALSE, latencyMs |-> 0]
    /\ callCount = 0
    /\ mockCalls = <<>>

\* No PluginManager method is in progress.
NoRun ==
    [kind |-> "none", status |-> "idle", pos |-> 0, size |-> 0,
     input |-> <<>>, value |-> <<>>, log |-> <<>>]

\* new PluginManager()
NoPluginManager ==
    /\ pmPlugins = <<>>
    /\ pmInitialized = FALSE
    /\ pmRun = NoRun

\* No logger middleware has been created.
NoLogger ==
    /\ loggerOptions = [level |-> "info", logContent |-> FALSE]
    /\ logEntries = <<>>
    /\ loggerRuns = <<>>

\* No StreamHandler.handle call has been made.
NoHandling ==
    [pc |-> "idle", source |-> <<>>, chunk |-> [type |-> "none", data |-> None], yielded |-> <<>>]

\* No StreamHandler has been created.
NoHandler ==
    /\ abortController = FALSE
    /\ heartbeatInterval = FALSE
    /\ onChunkCallbacks = <<>>
    /\ handling = NoHandling

FinalIdle == NoLogger /\ NoHandler

MiddleIdle == NoSummaryMemory /\ NoStreamer /\ NoMock /\ NoPluginManager

LaterIdle == MiddleIdle /\ FinalIdle

StandaloneIdle ==
    NoLimiter /\ NoFilter /\ NoPipeline /\ NoTruncation /\ NoWindow /\ LaterIdle

Init ==
    /\ initialized = FALSE
    /\ middlewares = <<>>
    /\ plugins = <<>>
    /\ tools = [n \in ToolNames |-> "absent"]
    /\ conversations = [id \in ConvIds |-> NoConv]
    /\ pc = [r \in Requests |-> "idle"]
    /\ rq = [r \in Requests |-> IdleRequest]
    /\ loc = [r \in Requests |-> IdleLocals]
    /\ out = [r \in Requests |-> IdleOutcome]
    /\ trace = [r \in Requests |-> <<>>]
    /\ yielded = [r \in Requests |-> <<>>]
    /\ reader = [r \in Requests |-> NoReader]
    /\ StandaloneIdle

ChatSteps(r) ==
    \/ InitHookSettles(r)
    \/ InitResolved(r)
    \/ BeforeChatSettles(r)
    \/ MiddlewareCallsNext(r)
    \/ MiddlewareBlocks(r)
    \/ MiddlewareThrows(r)
    \/ PipelineResolved(r)
    \/ CompleteResolves(r)
    \/ CompleteThrows(r)
    \/ ToolSettles(r)
    \/ AfterChatSettles(r)
    \/ ErrorHookSettles(r)

StreamSteps(r) ==
    \/ ProviderYields(r)
    \/ ProviderReturns(r)
    \/ ProviderThrows(r)
    \/ ConsumerNext(r)
    \/ ConsumerBreak(r)

\* Spec: the host configures the engine, may store a message, and issues
\* one chat() call.
Next ==
    \/ \E priority \in Priorities : use(priority)
    \/ \E hooks \in PluginShapes : registerPlugin(hooks)
    \/ \E name \in ToolNames, hasExecute \in BOOLEAN : registerTool(name, hasExecute)
    \/ \E id \in ClientConvIds : seedConversation(id)
    \/ chat("r1")
    \/ ChatSteps("r1")

Spec == Init /\ [][Next]_vars

\* An engine configured with one middleware, one plugin implementing every
\* hook, and one executable tool.
InitConfigured ==
    /\ initialized = FALSE
    /\ middlewares = <<[name |-> MwNames[1], priority |-> <<>>]>>
    /\ plugins = <<[name |-> PluginNames[1], hooks |-> HookNames]>>
    /\ tools = [n \in ToolNames |-> "exec"]
    /\ conversations = [id \in ConvIds |-> NoConv]
    /\ pc = [r \in Requests |-> "idle"]
    /\ rq = [r \in Requests |-> IdleRequest]
    /\ loc = [r \in Requests |-> IdleLocals]
    /\ out = [r \in Requests |-> IdleOutcome]
    /\ trace = [r \in Requests |-> <<>>]
    /\ yielded = [r \in Requests |-> <<>>]
    /\ reader = [r \in Requests |-> NoReader]
    /\ StandaloneIdle

\* SpecOverlap: two chat() calls that may overlap on the configured engine.
\* The two calls are interchangeable: "r1" is the one that starts first.
NextOverlap ==
    \/ chat("r1")
    \/ pc["r1"] # "idle" /\ chat("r2")
    \/ \E r \in Requests : ChatSteps(r)

SpecOverlap == InitConfigured /\ [][NextOverlap]_vars

\* SpecStream: the host may store a message and issues one stream() call on
\* the configured engine, whose provider is the host's own.
NextStream ==
    \/ \E id \in ClientConvIds : seedConversation(id)
    \/ stream("r1")
    \/ InitHookSettles("r1")
    \/ InitResolved("r1")
    \/ StreamSteps("r1")

SpecStream == InitConfigured /\ [][NextStream]_vars

\* SpecOpenAI: one stream() call on an engine whose provider is an
\* OpenAIProvider, with no plugins and no middlewares.
InitOpenAI ==
    /\ initialized = FALSE
    /\ middlewares = <<>>
    /\ plugins = <<>>
    /\ tools = [n \in ToolNames |-> "absent"]
    /\ conversations = [id \in ConvIds |-> NoConv]
    /\ pc = [r \in Requests |-> "idle"]
    /\ rq = [r \in Requests |-> IdleRequest]
    /\ loc = [r \in Requests |-> IdleLocals]
    /\ out = [r \in Requests |-> IdleOutcome]
    /\ trace = [r \in Requests |-> <<>>]
    /\ yielded = [r \in Requests |-> <<>>]
    /\ reader = [r \in Requests |-> FreshReader]
    /\ StandaloneIdle

NextOpenAI ==
    \/ stream("r1")
    \/ InitResolved("r1")
    \/ FetchSettles("r1")
    \/ ReadSettles("r1")
    \/ GeneratorResumes("r1")
    \/ ConsumerNext("r1")
    \/ ConsumerBreak("r1")

SpecOpenAI == InitOpenAI /\ [][NextOpenAI]_vars

(***************************************************************************)
(* Properties of ChatEngine.chat and ChatEngine.stream.                    *)
(***************************************************************************)
Events(r) == 1..Len(trace[r])

\* The events of call r at which a middleware returned proceed=false.
BlockEvents(r) ==
    {i \in Events(r) : trace[r][i].ev = "middleware" /\ trace[r][i].res = "block"}

BlockedChat(r) == rq[r].kind = "chat" /\ pc[r] = "done" /\ BlockEvents(r) # {}

\* The position of the middleware called `name` in the sorted list.
PositionOf(name) == CHOOSE k \in 1..Len(middlewares) : middlewares[k].name = name

\* The conversation a call addresses and what its caller can read of it;
\* an id that names no conversation reads as an empty one.
TargetOf(r) == ResolveConvId(rq[r], r)

ViewOf(convs, id) ==
    IF convs[id].exists
    THEN [messages |-> convs[id].messages, messageCount |-> convs[id].messageCount,
          totalTokens |-> convs[id].totalTokens]
    ELSE [messages |-> <<>>, messageCount |-> 0, totalTokens |-> 0]

\* The messages of role `role` that call r has put into its conversation.
StoredBy(r, role) ==
    SelectSeq(getMessages(conversations, TargetOf(r)),
              LAMBDA m : m.role = role /\ m.id.req = r)

\* C1: in chat(), once a middleware has returned proceed=false, no
\* middleware sorted after it is executed for that request, and
\* provider.complete is not called for that request.
C1_PipelineShortCircuits ==
    \A r \in Requests : \A i \in BlockEvents(r) :
        /\ \A j \in Events(r) :
              trace[r][j].ev = "middleware" /\ trace[r][j].res = "call"
                  => PositionOf(trace[r][j].who) <= PositionOf(trace[r][i].who)
        /\ \A j \in Events(r) : trace[r][j].ev # "provider.complete"

\* The first of two middlewares has blocked a chat() and the call has ended.
C1_Witness ==
    /\ Len(middlewares) = 2
    /\ BlockedChat("r1")
    /\ \E i \in BlockEvents("r1") : trace["r1"][i].who = middlewares[1].name

C3_BlockedLeavesConversation ==
    [][\A r \in Requests :
          (/\ rq'[r].kind = "chat"
           /\ \/ pc'[r] \in {"init", "initDone", "before", "mw", "pipelineDone"}
              \/ pc'[r] = "done" /\ ~loc'[r].mwResult.proceed)
          => ViewOf(conversations', ResolveConvId(rq'[r], r))
               = ViewOf(conversations, ResolveConvId(rq'[r], r))]_vars

\* A chat() on a conversation that held one message was blocked, and the
\* conversation holds that one message.
C3_Witness ==
    /\ BlockedChat("r1")
    /\ loc["r1"].conv = "c1"
    /\ conversations["c1"].messageCount = 1
    /\ conversations["c1"].totalTokens = estimateTokens(SeedText)

\* C4: chat() and stream() reject a request whose message is empty,
\* whitespace-only or longer than 100,000 characters before any state
\* mutation: no conversation is created, no message is appended, the
\* provider is not called, and the call ends by throwing.
C4_InvalidMessageRejected ==
    \A r \in Requests :
        rq[r].kind \in {"chat", "stream"} /\ ~validateMessageContent(rq[r].message)
            => /\ \A i \in Events(r) :
                     trace[r][i].ev \notin
                         {"getOrCreate", "addMessage", "provider.complete", "provider.stream"}
               /\ pc[r] = "done" => out[r].status = "threw"

\* C5: for every stream() request, provider.stream is invoked, and the
\* user message appended, only after every plugin's onBeforeChat hook and
\* every middleware of the pipeline has run and the pipeline has proceeded.
C5_StreamRunsHooksAndPipeline ==
    \A r \in Requests : \A i \in Events(r) :
        (/\ rq[r].kind = "stream"
         /\ \/ trace[r][i].ev = "provider.stream"
            \/ trace[r][i].ev = "addMessage" /\ trace[r][i].who = "user")
        => /\ \A k \in 1..Len(plugins) :
                 "onBeforeChat" \in plugins[k].hooks
                     => \E j \in 1..(i - 1) :
                           trace[r][j] = Ev("onBeforeChat", plugins[k].name, "call")
           /\ \A k \in 1..Len(middlewares) :
                 \E j \in 1..(i - 1) :
                     trace[r][j] = Ev("middleware", middlewares[k].name, "next")

\* The events of call r at which provider.complete threw.
CompleteThrew(r) ==
    {i \in Events(r) : trace[r][i] = Ev("provider.complete", "", "throw")}

\* C6: when provider.complete throws during chat(), the onError hook of
\* every plugin that has one is run, then the error is re-raised, and the
\* error the caller of chat() observes is the provider's error.
C6_CallerSeesProviderError ==
    \A r \in Requests : \A i \in CompleteThrew(r) :
        pc[r] = "done"
            => /\ out[r].status = "threw"
               /\ out[r].error = "provider"
               /\ \A k \in 1..Len(plugins) :
                     "onError" \in plugins[k].hooks
                         => \E j \in (i + 1)..Len(trace[r]) :
                               trace[r][j] = Ev("onError", plugins[k].name, "call")

\* C7, as claimed: whenever chat() throws to its caller, the conversation
\* holds the request's user message and no assistant reply of the request.
C7_ThrowLeavesUserMessageOnly ==
    \A r \in Requests :
        rq[r].kind = "chat" /\ out[r].status = "threw"
            => Len(StoredBy(r, "user")) = 1 /\ Len(StoredBy(r, "assistant")) = 0

\* C7, amended: whenever chat() throws to its caller after provider.complete
\* has thrown, the conversation holds the request's user message and no
\* assistant reply of the request.
C7_ProviderFailureLeavesUserMessageOnly ==
    \A r \in Requests :
        rq[r].kind = "chat" /\ out[r].status = "threw" /\ CompleteThrew(r) # {}
            => /\ StoredBy(r, "user")
                    = <<createMessage(MsgId(r, "user", 0), "user", rq[r].message)>>
               /\ StoredBy(r, "assistant") = <<>>

\* A chat() on a conversation that held a message has thrown the provider's
\* error after an onError hook ran.
C7_Witness ==
    /\ rq["r1"].kind = "chat"
    /\ out["r1"].status = "threw"
    /\ out["r1"].error = "provider"
    /\ \E i \in Events("r1") : trace["r1"][i].ev = "onError"
    /\ loc["r1"].conv = "c1"
    /\ conversations["c1"].messageCount = 2

\* Two chat() calls on conversation "c1" have both ended after their
\* provider calls resolved.
BothSucceeded ==
    \A r \in Requests :
        /\ rq[r].kind = "chat"
        /\ rq[r].conversationId = "c1"
        /\ pc[r] = "done"
        /\ \E i \in Events(r) : trace[r][i] = Ev("provider.complete", "", "ok")

BothStored ==
    \A r \in Requests :
        /\ StoredBy(r, "user")
             = <<createMessage(MsgId(r, "user", 0), "user", rq[r].message)>>
        /\ StoredBy(r, "assistant")
             = <<createMessage(MsgId(r, "assistant", 0), "assistant",
                               loc[r].response.content)>>

RECURSIVE TokenText(_)
TokenText(chunks) ==
    IF chunks = <<>> THEN <<>>
    ELSE LET c == Head(chunks)
         IN  (IF c.type = "token" /\ c.data \notin {NotAString, None} THEN c.data ELSE <<>>)
                 \o TokenText(Tail(chunks))

\* C9: when a stream() sequence has been consumed to exhaustion, the chunks
\* yielded are the provider's chunks in the provider's order, and the
\* conversation has gained exactly one assistant message, whose content is
\* the concatenation of the string token payloads the provider yielded; if
\* that concatenation is empty no assistant message has been appended.
C9_StreamPersistsConcatenation ==
    \A r \in Requests :
        rq[r].kind = "stream" /\ out[r].status = "exhausted"
            => /\ yielded[r] = loc[r].produced
               /\ StoredBy(r, "assistant")
                    = IF TokenText(loc[r].produced) = <<>> THEN <<>>
                      ELSE <<createMessage(MsgId(r, "assistant", 0), "assistant",
                                           TokenText(loc[r].produced))>>

\* An exhausted stream whose provider yielded "a" then " b" has stored "a b".
C9_Witness ==
    /\ out["r1"].status = "exhausted"
    /\ Len(yielded["r1"]) = 2
    /\ StoredBy("r1", "assistant")
         = <<createMessage(MsgId("r1", "assistant", 0), "assistant", <<"a", " ", "b">>)>>

\* C10: however a stream() on an OpenAIProvider ends (exhaustion, provider
\* error, or the consumer breaking out at any chunk), the provider's stream
\* is closed and the reader lock it took has been released.
C10_StreamReleasesReader ==
    \A r \in Requests :
        pc[r] = "done"
            => /\ reader[r].at = "ended"
               /\ ~reader[r].locked
               /\ loc[r].prov \in {"finished", "threw", "closed"}

\* The consumer broke out at a token chunk of the second read, while the
\* generator held the reader lock inside its try block.
C10_Witness ==
    /\ out["r1"].status = "broken"
    /\ reader["r1"].reads = 2
    /\ yielded["r1"][Len(yielded["r1"])].type = "token"
    /\ reader["r1"].at = "ended"

(***************************************************************************)
(* Number arithmetic (IEEE 754 binary64) as the rate limiter uses it: the  *)
(* quotient of two positive numbers rounded to nearest, ties to even,      *)
(* Math.floor and Math.ceil.  A positive number is [m, e], the value       *)
(* m * 2^e with 2^52 <= m < 2^53; m is four limbs of 15 bits, most         *)
(* significant first.                                                      *)
(***************************************************************************)
Limb == 32768

Min(a, b) == IF a < b THEN a ELSE b

Max(a, b) == IF a > b THEN a ELSE b

BigZero == <<0, 0, 0, 0>>

\* x in 0 .. 2^31 - 1
BigFromInt(x) == <<0, x \div (Limb * Limb), (x \div Limb) % Limb, x % Limb>>

\* a < 2^31
BigToInt(a) == (a[2] * Limb + a[3]) * Limb + a[4]

BigLess(a, b) ==
    \E i \in 1..4 : a[i] < b[i] /\ \A j \in 1..(i - 1) : a[j] = b[j]

\* a * d + c, for 0 <= d <= 2^14 and 0 <= c < 2^14
BigMulAdd(a, d, c) ==
    LET p4 == a[4] * d + c
        p3 == a[3] * d + p4 \div Limb
        p2 == a[2] * d + p3 \div Limb
        p1 == a[1] * d + p2 \div Limb
    IN  <<p1, p2 % Limb, p3 % Limb, p4 % Limb>>

\* a - b, for a >= b
BigSub(a, b) ==
    LET d4 == a[4] - b[4]
        d3 == a[3] - b[3] - (IF d4 < 0 THEN 1 ELSE 0)
        d2 == a[2] - b[2] - (IF d3 < 0 THEN 1 ELSE 0)
        d1 == a[1] - b[1] - (IF d2 < 0 THEN 1 ELSE 0)
    IN  <<d1, d2 % Limb, d3 % Limb, d4 % Limb>>

\* a * 2^k, for a * 2^k < 2^60
BigShl(a, k) ==
    LET b == BigMulAdd(a, 2 ^ (k % 15), 0)
        n == k \div 15
    IN  [i \in 1..4 |-> IF i + n <= 4 THEN b[i + n] ELSE 0]

\* a \div 2^k, for a < 2^60
BigShr(a, k) ==
    LET n == k \div 15
        b == [i \in 1..4 |-> IF i - n >= 1 THEN a[i - n] ELSE 0]
        d == 2 ^ (k % 15)
        h == 2 ^ (15 - (k % 15))
    IN  <<b[1] \div d,
          (b[1] % d) * h + b[2] \div d,
          (b[2] % d) * h + b[3] \div d,
          (b[3] % d) * h + b[4] \div d>>

BigOdd(a) == a[4] % 2 = 1

\* The number of bits of x, 0 < x < 2^31.
BitLength(x) == CHOOSE n \in 1..31 : x \div 2 ^ (n - 1) = 1

\* The Number that holds the integer x, 0 < x < 2^31.
ToNumber(x) ==
    LET n == BitLength(x)
    IN  [m |-> BigShl(BigFromInt(x), 53 - n), e |-> n - 53]

\* Long division, six bits of quotient at a time.  The next digit for the
\* remainder r (already multiplied by 64) is within 2 of the quotient of
\* the two leading limbs of r and of the divisor mb.
Digits(r, mb) ==
    LET est == (r[1] * Limb + r[2]) \div (mb[1] * Limb + mb[2])
    IN  {c \in Max(0, est - 2)..Min(63, est + 2) :
            \E lo \in {BigMulAdd(mb, c, 0)} :
                /\ ~BigLess(r, lo)
                /\ \E rest \in {BigSub(r, lo)} : BigLess(rest, mb)}

\* s.rem < mb
DivStep(s, mb) ==
    CHOOSE next \in
        UNION {{[rem |-> BigSub(r, BigMulAdd(mb, c, 0)), q |-> BigMulAdd(s.q, 64, c)] :
                    c \in Digits(r, mb)} :
               r \in {BigMulAdd(s.rem, 64, 0)}} : TRUE

RECURSIVE DivSteps(_, _, _)
DivSteps(s, mb, k) ==
    IF k = 0 THEN s
    ELSE CHOOSE res \in {DivSteps(next, mb, k - 1) : next \in {DivStep(s, mb)}} : TRUE

\* The quotient bits d.q (the leading bit and 54 more, of which 53 are
\* kept, one is the guard bit and the rest is sticky) rounded to nearest,
\* ties to even.
Round(d, e0) ==
    LET q == BigShr(d.q, 2)
        guard == d.q[4] % 4 >= 2
        sticky == BigOdd(d.q) \/ d.rem # BigZero
        roundUp == guard /\ (sticky \/ BigOdd(q))
    IN  CHOOSE x \in {IF q1[1] >= 256 THEN [m |-> BigShr(q1, 1), e |-> e0 - 51]
                      ELSE [m |-> q1, e |-> e0 - 52] :
                      q1 \in {IF roundUp THEN BigMulAdd(q, 1, 1) ELSE q}} : TRUE

\* a / b
Quotient(a, b) ==
    LET pre == BigLess(a.m, b.m)
        e0 == a.e - b.e - (IF pre THEN 1 ELSE 0)
    IN  CHOOSE x \in
            {Round(d, e0) :
                d \in {DivSteps([rem |-> BigSub(rem0, b.m), q |-> <<0, 0, 0, 1>>], b.m, 9) :
                          rem0 \in {IF pre THEN BigMulAdd(a.m, 2, 0) ELSE a.m}}} : TRUE

NumberDiv(a, b) == CHOOSE q \in {Quotient(av, bv) : av \in {a}, bv \in {b}} : TRUE

\* Math.floor and Math.ceil of a positive Number below 2^31.
MathFloor(x) ==
    IF x.e >= 0 THEN BigToInt(BigShl(x.m, x.e))
    ELSE IF x.e <= -60 THEN 0
    ELSE BigToInt(BigShr(x.m, -x.e))

IsWhole(x) ==
    \/ x.e >= 0
    \/ x.e > -60 /\ BigShl(BigShr(x.m, -x.e), -x.e) = x.m

MathCeil(x) == IF IsWhole(x) THEN MathFloor(x) ELSE MathFloor(x) + 1

(***************************************************************************)
(* createRateLimiter (src/middleware/logger.ts): a token bucket per        *)
(* conversation id.                                                        *)
(***************************************************************************)
\* A run sends the conversation under load up to maxRequests + MaxExtraCalls
\* requests, and the clock runs up to MaxTime.
MaxExtraCalls == 2
MaxTime == 10

\* The configurations a limiter is created with.
RateConfigs ==
    {[windowMs |-> 4, maxRequests |-> 2], [windowMs |-> 9, maxRequests |-> 7]}

\* The conversation under load; every other conversation sends one request.
MainKey == "c1"

\* config.windowMs / config.maxRequests
RefillRate(config) ==
    NumberDiv(ToNumber(config.windowMs), ToNumber(config.maxRequests))

maxTokens == rateConfig.maxRequests

\* createRateLimiter(config)
createRateLimiter(config) ==
    /\ rateConfig = config
    /\ refillRateMs = RefillRate(config)
    /\ buckets = [k \in RateKeys |-> NoBucket]

\* Faulty variant of getBucket: the bucket found in the map is not used.
getBucketFresh(bs, key, now) ==
    [exists |-> TRUE, tokens |-> maxTokens, lastRefill |-> now]

getBucket(bs, key, now) ==
    IF bs[key].exists THEN bs[key]
    ELSE [exists |-> TRUE, tokens |-> maxTokens, lastRefill |-> now]

\* Faulty variant of refill: a single token's worth of time adds nothing.
refillSkipsSingle(bucket, now) ==
    LET elapsed == now - bucket.lastRefill
    IN  CHOOSE refilled \in
            {IF tokensToAdd > 1
             THEN [bucket EXCEPT !.tokens = Min(maxTokens, @ + tokensToAdd),
                                 !.lastRefill = now]
             ELSE bucket :
                tokensToAdd \in {IF elapsed = 0 THEN 0
                                 ELSE MathFloor(NumberDiv(ToNumber(elapsed), refillRateMs))}} :
            TRUE

refill(bucket, now) ==
    LET elapsed == now - bucket.lastRefill
    IN  CHOOSE refilled \in
            {IF tokensToAdd > 0
             THEN [bucket EXCEPT !.tokens = Min(maxTokens, @ + tokensToAdd),
                                 !.lastRefill = now]
             ELSE bucket :
                tokensToAdd \in {IF elapsed = 0 THEN 0
                                 ELSE MathFloor(NumberDiv(ToNumber(elapsed), refillRateMs))}} :
            TRUE

retryAfterMsFloored(bucket, now) ==
    Max(0, MathFloor(refillRateMs) - (now - bucket.lastRefill))

\* Math.max(0, Math.ceil(refillRateMs - (Date.now() - bucket.lastRefill))).
\* With d = Date.now() - bucket.lastRefill an integer: when d < refillRateMs
\* the difference is a multiple of refillRateMs' unit in the last place and
\* smaller than refillRateMs, so the subtraction is exact and its ceiling is
\* Math.ceil(refillRateMs) - d; otherwise the difference is at most 0 and
\* Math.max gives 0.
retryAfterMs(bucket, now) ==
    Max(0, MathCeil(refillRateMs) - (now - bucket.lastRefill))

tryConsumeOffByOne(bucket, waitNow) ==
    IF bucket.tokens >= 0
    THEN [bucket |-> [bucket EXCEPT !.tokens = @ - 1], allowed |-> TRUE, retryAfterMs |-> 0]
    ELSE [bucket |-> bucket, allowed |-> FALSE, retryAfterMs |-> retryAfterMs(bucket, waitNow)]

\* tryConsume after getBucket and refill; waitNow is what Date.now()
\* returns when the wait is computed.
tryConsume(bucket, waitNow) ==
    IF bucket.tokens >= 1
    THEN [bucket |-> [bucket EXCEPT !.tokens = @ - 1], allowed |-> TRUE, retryAfterMs |-> 0]
    ELSE [bucket |-> bucket, allowed |-> FALSE, retryAfterMs |-> retryAfterMs(bucket, waitNow)]

\* tryConsume(key) on the limiter's state, the clock advancing by d1 and d2.
Consumed(key, d1, d2) ==
    tryConsume(refill(getBucket(buckets, key, clock), clock + d1), clock + d1 + d2)

\* What the call leaves in the limiter, and its entry in rateLog.
Served(key, d1, d2, res) ==
    /\ ~res.allowed \/ d2 = 0
    /\ buckets' = [buckets EXCEPT ![key] = res.bucket]
    /\ clock' = clock + d1 + d2
    /\ rateLog' = Append(rateLog,
          [key |-> key, created |-> ~buckets[key].exists,
           start |-> clock, at |-> clock + d1, waitAt |-> clock + d1 + d2,
           proceed |-> res.allowed, nextCalled |-> res.allowed,
           retryAfterMs |-> res.retryAfterMs,
           rateLimitRemaining |-> res.bucket.tokens,
           lastRefill |-> res.bucket.lastRefill])
    /\ UNCHANGED <<rateConfig, refillRateMs>>

\* The middleware's execute for a context whose conversation id is `key`.
\* The clock may advance by d1 between getBucket's Date.now() and refill's
\* (read only for a new bucket), and by d2 between refill's and the one that
\* computes the wait (read only on rejection).
execute(key, d1, d2) ==
    /\ IF key = MainKey
       THEN Cardinality({i \in 1..Len(rateLog) : rateLog[i].key = key})
                < maxTokens + MaxExtraCalls
       ELSE ~buckets[key].exists
    /\ clock + d1 + d2 <= MaxTime
    /\ buckets[key].exists => d1 = 0
    /\ \E res \in {Consumed(key, d1, d2)} : Served(key, d1, d2, res)
    /\ UNCHANGED besidesRate

\* Time passes between two requests: half a window, or a full one.
Tick(d) ==
    /\ clock + d <= MaxTime
    /\ clock' = clock + d
    /\ UNCHANGED <<rateConfig, refillRateMs, buckets, rateLog>>
    /\ UNCHANGED besidesRate

\* The engine part of the state when only a component is exercised.
IdleEngine ==
    /\ initialized = FALSE
    /\ middlewares = <<>>
    /\ plugins = <<>>
    /\ tools = [n \in ToolNames |-> "absent"]
    /\ conversations = [id \in ConvIds |-> NoConv]
    /\ pc = [r \in Requests |-> "idle"]
    /\ rq = [r \in Requests |-> IdleRequest]
    /\ loc = [r \in Requests |-> IdleLocals]
    /\ out = [r \in Requests |-> IdleOutcome]
    /\ trace = [r \in Requests |-> <<>>]
    /\ yielded = [r \in Requests |-> <<>>]
    /\ reader = [r \in Requests |-> NoReader]

\* SpecRate: a rate limiter created with one of RateConfigs receives
\* requests while time passes.
InitRate ==
    /\ IdleEngine
    /\ NoFilter
    /\ NoPipeline
    /\ NoTruncation
    /\ NoWindow
    /\ LaterIdle
    /\ \E config \in RateConfigs : createRateLimiter(config)
    /\ clock = 0
    /\ rateLog = <<>>

NextRate ==
    \/ \E key \in RateKeys, d1 \in 0..1, d2 \in 0..1 : execute(key, d1, d2)
    \/ \E d \in {rateConfig.windowMs \div 2, rateConfig.windowMs} : Tick(d)

SpecRate == InitRate /\ [][NextRate]_vars

(***************************************************************************)
(* Properties of the rate limiter.                                         *)
(***************************************************************************)
\* The positions in rateLog of the calls for `key`, and the k-th of them.
CallsOf(key) == {i \in 1..Len(rateLog) : rateLog[i].key = key}

NthCallOf(key, k) ==
    CHOOSE i \in CallsOf(key) : Cardinality({j \in CallsOf(key) : j <= i}) = k

\* The first k calls for `key` all read the clock value at which the bucket
\* was created.
NoTimeElapsed(key, k) ==
    /\ Cardinality(CallsOf(key)) >= k
    /\ \A j \in 1..k :
         LET c == rateLog[NthCallOf(key, j)]
             c1 == rateLog[NthCallOf(key, 1)]
         IN  c.start = c1.start /\ c.at = c1.start /\ c.waitAt = c1.start

\* C11: with maxRequests = n, when n + 1 requests for one conversation id
\* reach the rate limiter with no time elapsing between them, exactly the
\* first n are allowed (next is called) and the (n+1)th is rejected with
\* proceed = false.
C11_FirstNAllowedThenRejected ==
    \A key \in RateKeys :
        NoTimeElapsed(key, maxTokens + 1) =>
            /\ \A j \in 1..maxTokens :
                 LET c == rateLog[NthCallOf(key, j)] IN c.nextCalled /\ c.proceed
            /\ LET c == rateLog[NthCallOf(key, maxTokens + 1)]
               IN  ~c.nextCalled /\ ~c.proceed

C11_Witness ==
    \E key \in RateKeys :
        /\ NoTimeElapsed(key, maxTokens + 1)
        /\ ~rateLog[NthCallOf(key, maxTokens + 1)].proceed

\* The wait of a rejected call c in exact arithmetic:
\* max(0, ceil(windowMs / maxRequests - (now - lastRefill))).
ExactWait(c) ==
    Max(0, CeilDiv(rateConfig.windowMs
                     - (c.waitAt - c.lastRefill) * rateConfig.maxRequests,
                   rateConfig.maxRequests))

\* The k-th call for `key` comes a full window or more after the one before it.
AfterQuietWindow(key, k) ==
    /\ k >= 2
    /\ Cardinality(CallsOf(key)) >= k
    /\ rateLog[NthCallOf(key, k)].at - rateLog[NthCallOf(key, k - 1)].waitAt
          >= rateConfig.windowMs

\* C12: every bucket's token count stays within 0..maxRequests, and once a
\* full windowMs has elapsed with no requests for an id the bucket is fully
\* refilled: the request that follows finds maxRequests tokens, and it and
\* the maxRequests - 1 requests after it are all allowed.
C12_BoundedAndRefilledAfterWindow ==
    /\ \A key \in RateKeys :
         buckets[key].exists => buckets[key].tokens \in 0..maxTokens
    /\ \A key \in RateKeys : \A k \in 2..Cardinality(CallsOf(key)) :
         AfterQuietWindow(key, k) =>
            /\ rateLog[NthCallOf(key, k)].rateLimitRemaining = maxTokens - 1
            /\ \A j \in k..Min(k + maxTokens - 1, Cardinality(CallsOf(key))) :
                 rateLog[NthCallOf(key, j)].proceed

\* C13 as stated: whenever the rate limiter rejects a request, the wait it
\* reports equals max(0, ceil(refillInterval - (now - lastRefill))) with
\* refillInterval = windowMs / maxRequests, and is strictly greater than 0.
C13_WaitIsPositiveCeiling ==
    \A i \in 1..Len(rateLog) :
        ~rateLog[i].proceed =>
            /\ rateLog[i].retryAfterMs = ExactWait(rateLog[i])
            /\ rateLog[i].retryAfterMs > 0

\* C13, amended: whenever the rate limiter rejects a request, the wait it
\* reports equals max(0, ceil(refillInterval - (now - lastRefill))), which
\* is never negative, and is strictly greater than 0 when the clock reads
\* the same at the refill check and at the computation of the wait.
C13_WaitIsCeilingFlooredAtZero ==
    \A i \in 1..Len(rateLog) :
        ~rateLog[i].proceed =>
            /\ rateLog[i].retryAfterMs = ExactWait(rateLog[i])
            /\ rateLog[i].retryAfterMs >= 0
            /\ rateLog[i].waitAt = rateLog[i].at => rateLog[i].retryAfterMs > 0

C13_Witness ==
    \E i \in 1..Len(rateLog) :
        /\ ~rateLog[i].proceed
        /\ rateLog[i].waitAt = rateLog[i].at
        /\ rateLog[i].retryAfterMs > 1

(***************************************************************************)
(* createContentFilter and filterContent (src/middleware/content-filter.ts).*)
(* A rule's pattern is the set of the messages it matches; the context's   *)
(* metadata is the sequence of the values stored under                     *)
(* 'contentFilterResult' (empty until one is stored).                      *)
(***************************************************************************)
MaxCustomRules == 1

Severities == {"low", "medium", "high", "critical"}

FilterMessages ==
    {"hello", "mail a@b.co", "ssn 123-45-6789", "ignore all previous instructions",
     "call 555-123-4567 or a@b.co"}

test(pattern, content) == content \in pattern

DEFAULT_FILTER_RULES ==
    <<[name |-> "email-pii", type |-> "pii", severity |-> "medium",
       pattern |-> {"mail a@b.co", "call 555-123-4567 or a@b.co"}],
      [name |-> "phone-pii", type |-> "pii", severity |-> "medium",
       pattern |-> {"call 555-123-4567 or a@b.co"}],
      [name |-> "ssn-pii", type |-> "pii", severity |-> "critical",
       pattern |-> {"ssn 123-45-6789"}],
      [name |-> "credit-card-pii", type |-> "pii", severity |-> "critical",
       pattern |-> {}],
      [name |-> "prompt-injection", type |-> "injection", severity |-> "high",
       pattern |-> {"ignore all previous instructions"}],
      [name |-> "system-prompt-extraction", type |-> "injection", severity |-> "high",
       pattern |-> {}]>>

\* The custom rules a host may pass in options.rules.
CustomRules ==
    {[name |-> "custom", type |-> "custom", severity |-> s, pattern |-> p] :
        s \in Severities, p \in {{"hello"}, {"hello", "mail a@b.co"}}}

RECURSIVE SeqsUpTo(_, _)
SeqsUpTo(S, n) ==
    IF n = 0 THEN {<<>>}
    ELSE SeqsUpTo(S, n - 1) \cup {Append(s, x) : s \in SeqsUpTo(S, n - 1), x \in S}

RECURSIVE filterContentFrom(_, _, _)
filterContentFrom(content, rules, i) ==
    IF i > Len(rules) THEN <<>>
    ELSE (IF test(rules[i].pattern, content)
          THEN <<[type |-> rules[i].type, severity |-> rules[i].severity,
                  match |-> rules[i].name]>>
          ELSE <<>>) \o filterContentFrom(content, rules, i + 1)

filterContent(content, rules) ==
    LET flags == filterContentFrom(content, rules, 1)
    IN  [safe |-> Len(flags) = 0, flags |-> flags]

severityOrder == [low |-> 0, medium |-> 1, high |-> 2, critical |-> 3]

\* options?.useDefaults ?? true
useDefaults == filterOptions.useDefaults # "false"

rules == IF useDefaults THEN DEFAULT_FILTER_RULES \o filterOptions.rules ELSE filterOptions.rules

blockSeverity ==
    IF filterOptions.blockSeverity = "undefined" THEN "high" ELSE filterOptions.blockSeverity

blockThreshold == severityOrder[blockSeverity]

shouldBlockStrictly(result) ==
    \E i \in 1..Len(result.flags) : severityOrder[result.flags[i].severity] > blockThreshold

shouldBlock(result) ==
    \E i \in 1..Len(result.flags) : severityOrder[result.flags[i].severity] >= blockThreshold

\* The middleware's execute; next() resolves with proceed = true.
filterExecute ==
    /\ ~filterOutcome.returned
    /\ LET result == filterContent(filterContext.message, rules)
       IN  IF ~result.safe /\ shouldBlock(result)
           THEN /\ filterOutcome' =
                      [returned |-> TRUE, proceed |-> FALSE, nextCalled |-> FALSE,
                       error |-> [text |-> "Message blocked by content filter: ",
                                  flagNames |-> [i \in 1..Len(result.flags) |->
                                                    result.flags[i].match]]]
                /\ UNCHANGED filterContext
           ELSE /\ filterContext' = [filterContext EXCEPT !.metadata = <<result>>]
                /\ filterOutcome' =
                      [returned |-> TRUE, proceed |-> TRUE, nextCalled |-> TRUE,
                       error |-> "undefined"]
    /\ UNCHANGED filterOptions
    /\ UNCHANGED besidesFilter

\* SpecFilter: a content filter created with some options is called once
\* with some message.
InitFilter ==
    /\ IdleEngine
    /\ NoLimiter
    /\ NoPipeline
    /\ NoTruncation
    /\ NoWindow
    /\ LaterIdle
    /\ filterOptions \in
          [rules : SeqsUpTo(CustomRules, MaxCustomRules),
           useDefaults : {"undefined", "true", "false"},
           blockSeverity : {"undefined"} \cup Severities]
    /\ filterContext \in [message : FilterMessages, metadata : {<<>>}]
    /\ filterOutcome = [returned |-> FALSE]

NextFilter == filterExecute

SpecFilter == InitFilter /\ [][NextFilter]_vars

(***************************************************************************)
(* Properties of the content filter.                                       *)
(***************************************************************************)
\* The rules in force, in order, that match the message.
MatchingRules ==
    SelectSeq(IF filterOptions.useDefaults = "false" THEN filterOptions.rules
              ELSE DEFAULT_FILTER_RULES \o filterOptions.rules,
              LAMBDA rule : filterContext.message \in rule.pattern)

SeverityRank(s) ==
    CASE s = "low" -> 0 [] s = "medium" -> 1 [] s = "high" -> 2 [] s = "critical" -> 3

ThresholdMet ==
    \E i \in 1..Len(MatchingRules) :
        SeverityRank(MatchingRules[i].severity) >=
            SeverityRank(IF filterOptions.blockSeverity = "undefined" THEN "high"
                         ELSE filterOptions.blockSeverity)

MaxPipelineCalls == 3

PipelineNames == {"a", "b"}

\* Priorities a pipeline middleware may carry; <<>> is a missing priority.
PipelinePriorities == {<<>>, <<0>>, <<-1>>}

\* Map.prototype.set: a known name keeps its place, a new one goes last.
MapSet(map, m) ==
    IF \E i \in 1..Len(map) : map[i].name = m.name
    THEN [i \in 1..Len(map) |-> IF map[i].name = m.name THEN m ELSE map[i]]
    ELSE Append(map, m)

\* Map.prototype.delete
MapDelete(map, name) == SelectSeq(map, LAMBDA m : m.name # name)

\* composeMiddleware: the order in which next() walks the middlewares.
composeMiddleware(ms) == SortByPriority(ms)

\* MiddlewarePipeline.use
pipelineUse(name, priority) ==
    /\ Len(pipelineLog) < MaxPipelineCalls
    /\ pipeline' = MapSet(pipeline, [name |-> name, priority |-> priority])
    /\ pipelineLog' = Append(pipelineLog, [op |-> "use", name |-> name, priority |-> priority])
    /\ pipelineRun' = [ran |-> FALSE, order |-> <<>>, proceed |-> TRUE]
    /\ UNCHANGED besidesPipeline

\* MiddlewarePipeline.remove
pipelineRemove(name) ==
    /\ Len(pipelineLog) < MaxPipelineCalls
    /\ pipeline' = MapDelete(pipeline, name)
    /\ pipelineLog' = Append(pipelineLog, [op |-> "remove", name |-> name, priority |-> <<>>])
    /\ pipelineRun' = [ran |-> FALSE, order |-> <<>>, proceed |-> TRUE]
    /\ UNCHANGED besidesPipeline

\* MiddlewarePipeline.execute: every middleware returns next()'s result
\* (blocksAt = 0), or the blocksAt-th one returns proceed = false without
\* calling next.
pipelineExecute(blocksAt) ==
    /\ ~pipelineRun.ran
    /\ blocksAt <= Len(pipeline)
    /\ LET sorted == composeMiddleware(pipeline)
           ranTo == IF blocksAt = 0 THEN Len(sorted) ELSE blocksAt
       IN  pipelineRun' = [ran |-> TRUE,
                           order |-> [i \in 1..ranTo |-> sorted[i].name],
                           proceed |-> blocksAt = 0]
    /\ UNCHANGED <<pipeline, pipelineLog>>
    /\ UNCHANGED besidesPipeline

\* SpecPipeline: middlewares are registered on a MiddlewarePipeline, which is
\* executed, and on a ChatEngine.
InitPipeline ==
    /\ IdleEngine
    /\ StandaloneIdle

NextPipeline ==
    \/ \E name \in PipelineNames, priority \in PipelinePriorities : pipelineUse(name, priority)
    \/ \E name \in PipelineNames : pipelineRemove(name)
    \/ \E blocksAt \in 0..MaxPipelineCalls : pipelineExecute(blocksAt)
    \/ \E priority \in Priorities : use(priority)

SpecPipeline == InitPipeline /\ [][NextPipeline]_vars

(***************************************************************************)
(* Properties of the middleware order.                                     *)
(***************************************************************************)
\* The calls on the pipeline that concern `name`; the use() that registered
\* the middleware now under that name; the use() since which the name has
\* been in the pipeline.
LogOf(name) == {i \in 1..Len(pipelineLog) : pipelineLog[i].name = name}

LastUse(name) == CHOOSE i \in LogOf(name) : \A j \in LogOf(name) : j <= i

RegisteredAt(name) ==
    CHOOSE i \in LogOf(name) :
        /\ \A j \in LogOf(name) : j >= i => pipelineLog[j].op = "use"
        /\ \A k \in LogOf(name) :
             (\A j \in LogOf(name) : j >= k => pipelineLog[j].op = "use") => i <= k

PriorityOf(name) ==
    IF pipelineLog[LastUse(name)].priority = <<>> THEN 0
    ELSE pipelineLog[LastUse(name)].priority[1]

\* The position of a ChatEngine middleware in the order of the use() calls.
EngineRegisteredAt(m) == CHOOSE k \in 1..Len(MwNames) : MwNames[k] = m.name

EnginePriorityOf(m) == IF m.priority = <<>> THEN 0 ELSE m.priority[1]

MaxMessages == 2

\* The ids the host uses, and the content of the messages it adds.
ManagerIds == {"c1", "r1"}

ManagerTexts == {<<"h", "i">>, <<"h", "e", "l", "l", "o">>}

\* Partial<ConversationMetadata>: <<>> is a key the update does not carry.
MetadataUpdates ==
    [messageCount : {<<>>, <<1>>}, totalTokens : {<<>>, <<0>>}, systemPrompt : {<<>>, <<SeedText>>}]

\* What JSON.parse gives for the JSON texts the host imports: conversations
\* written by hand.  (The export of a stored conversation parses to that
\* conversation.)
HandWritten ==
    [id : ManagerIds, exists : {TRUE}, systemPrompt : {None},
     messages : {<<>>, <<createMessage(MsgId("host", "user", 0), "user", SeedText)>>},
     messageCount : {0, 1}, totalTokens : {0}]

managerCreate(id) ==
    /\ conversations' = create(conversations, id, None)
    /\ UNCHANGED <<initialized, middlewares, plugins, tools>>
    /\ UNCHANGED <<callVars, standaloneVars>>

managerGetOrCreate(id) ==
    /\ conversations' = getOrCreate(conversations, id, None)
    /\ UNCHANGED <<initialized, middlewares, plugins, tools>>
    /\ UNCHANGED <<callVars, standaloneVars>>

\* addMessage: throws when the conversation is not found.
managerAddMessage(id, content) ==
    /\ conversations[id].exists
    /\ Len(conversations[id].messages) < MaxMessages
    /\ conversations' =
          addMessage(conversations, id,
                     createMessage(MsgId("host", "user", Len(conversations[id].messages)),
                                   "user", content))
    /\ UNCHANGED <<initialized, middlewares, plugins, tools>>
    /\ UNCHANGED <<callVars, standaloneVars>>

\* { ...conversation.metadata, ...updates }
updateMetadata(convs, id, updates) ==
    LET c == convs[id]
    IN  [convs EXCEPT ![id] =
            [c EXCEPT !.messageCount = IF updates.messageCount = <<>> THEN @
                                       ELSE updates.messageCount[1],
                      !.totalTokens = IF updates.totalTokens = <<>> THEN @
                                      ELSE updates.totalTokens[1],
                      !.systemPrompt = IF updates.systemPrompt = <<>> THEN @
                                       ELSE updates.systemPrompt[1]]]

\* updateMetadata: throws when the conversation is not found.
managerUpdateMetadata(id, updates) ==
    /\ conversations[id].exists
    /\ conversations' = updateMetadata(conversations, id, updates)
    /\ UNCHANGED <<initialized, middlewares, plugins, tools>>
    /\ UNCHANGED <<callVars, standaloneVars>>

\* import: the parsed conversation is stored under its id as it is.
import(convs, conversation) ==
    [convs EXCEPT ![conversation.id] =
        [exists |-> TRUE, messages |-> conversation.messages,
         systemPrompt |-> conversation.systemPrompt,
         totalTokens |-> conversation.totalTokens,
         messageCount |-> conversation.messageCount]]

managerImport(conversation) ==
    /\ conversations' = import(conversations, conversation)
    /\ UNCHANGED <<initialized, middlewares, plugins, tools>>
    /\ UNCHANGED <<callVars, standaloneVars>>

managerDelete(id) ==
    /\ conversations' = [conversations EXCEPT ![id] = NoConv]
    /\ UNCHANGED <<initialized, middlewares, plugins, tools>>
    /\ UNCHANGED <<callVars, standaloneVars>>

managerClear ==
    /\ conversations' = [id \in ConvIds |-> NoConv]
    /\ UNCHANGED <<initialized, middlewares, plugins, tools>>
    /\ UNCHANGED <<callVars, standaloneVars>>

\* SpecManager: the host drives a ConversationManager.
InitManager ==
    /\ IdleEngine
    /\ StandaloneIdle

NextManager ==
    \/ \E id \in ManagerIds : managerCreate(id)
    \/ \E id \in ManagerIds : managerGetOrCreate(id)
    \/ \E id \in ManagerIds, content \in ManagerTexts : managerAddMessage(id, content)
    \/ \E id \in ManagerIds, updates \in MetadataUpdates : managerUpdateMetadata(id, updates)
    \/ \E conversation \in HandWritten : managerImport(conversation)
    \/ \E id \in ManagerIds : managerDelete(id)
    \/ managerClear

SpecManager == InitManager /\ [][NextManager]_vars

(***************************************************************************)
(* Properties of the ConversationManager.                                  *)
(***************************************************************************)
\* C16: in every reachable state of the ConversationManager (after any
\* sequence of create, getOrCreate, addMessage, updateMetadata, import,
\* delete and clear), each stored conversation's metadata.messageCount
\* equals the length of its messages list.
C16_MessageCountIsLength ==
    \A id \in ConvIds :
        conversations[id].exists =>
            conversations[id].messageCount = Len(conversations[id].messages)

\* C17: for every conversation id, metadata.totalTokens is monotonically
\* non-decreasing: no operation makes the totalTokens stored under an
\* existing id smaller than it was before the operation.
C17_TotalTokensNeverDecrease ==
    [][\A id \in ConvIds :
          conversations[id].exists /\ conversations'[id].exists =>
              conversations'[id].totalTokens >= conversations[id].totalTokens]_vars

(***************************************************************************)
(* truncateMessages (src/chat/message.ts) as a function of its arguments.  *)
(***************************************************************************)
MaxInputLen == 3
MaxBudget == 16

\* The shapes of the messages of an input: role, content and name.
MessageShapes ==
    [role : {"system", "user"},
     content : {<<"h", "i">>, <<"h", "e", "l", "l", "o">>},
     name : {None, <<"b", "o", "b">>}]

\* The message lists of up to MaxInputLen messages; a message's id is its
\* position in the list.
MessageLists ==
    UNION {{[i \in 1..n |->
                [id |-> MsgId("host", shapes[i].role, i), role |-> shapes[i].role,
                 content |-> shapes[i].content, name |-> shapes[i].name]] :
            shapes \in [1..n -> MessageShapes]} : n \in 0..MaxInputLen}

\* truncateMessages(messages, maxTokens) is called and returns.
truncate ==
    /\ ~truncOutput.returned
    /\ truncOutput' = [returned |-> TRUE,
                       result |-> truncateMessages(truncInput.messages, truncInput.maxTokens)]
    /\ UNCHANGED truncInput
    /\ UNCHANGED besidesTrunc

\* SpecTruncate: one call of truncateMessages with some message list and
\* some budget.
InitTruncate ==
    /\ IdleEngine
    /\ NoLimiter /\ NoFilter /\ NoPipeline /\ NoWindow /\ LaterIdle
    /\ truncInput \in [messages : MessageLists, maxTokens : -1..MaxBudget]
    /\ truncOutput = [returned |-> FALSE, result |-> <<>>]

NextTruncate == truncate

SpecTruncate == InitTruncate /\ [][NextTruncate]_vars

(***************************************************************************)
(* Properties of truncateMessages.                                         *)
(***************************************************************************)
InputSystem == SelectSeq(truncInput.messages, LAMBDA m : m.role = "system")

InputOthers == SelectSeq(truncInput.messages, LAMBDA m : m.role # "system")

ResultSystem == SelectSeq(truncOutput.result, LAMBDA m : m.role = "system")

ResultOthers == SelectSeq(truncOutput.result, LAMBDA m : m.role # "system")

\* C18: for any message list and token budget, truncateMessages (with
\* keepSystemMessages at its default) returns every system message of the
\* input together with a contiguous suffix of the input's non-system
\* messages in their original order, never a sparse subset.
C18_SystemPlusContiguousSuffix ==
    truncOutput.returned =>
        /\ ResultSystem = InputSystem
        /\ \E k \in 0..Len(InputOthers) :
             ResultOthers = SubSeq(InputOthers, Len(InputOthers) - k + 1, Len(InputOthers))

\* A call that kept a system message and a proper, non-empty suffix of the
\* other messages, although the oldest of them would have fit on its own.
C18_Witness ==
    /\ truncOutput.returned
    /\ Len(InputSystem) > 0
    /\ Len(ResultOthers) > 0
    /\ Len(ResultOthers) < Len(InputOthers)
    /\ estimateTokens(InputOthers[1].content) + 4
          <= truncInput.maxTokens - estimateMessagesTokens(InputSystem)

\* C19: for any message list (including messages that carry a name field)
\* and any token budget, the estimated token count of the list returned by
\* truncateMessages never exceeds the budget unless the returned list
\* consists only of system messages.
C19_ResultWithinBudget ==
    truncOutput.returned =>
        \/ estimateMessagesTokens(truncOutput.result) <= truncInput.maxTokens
        \/ Len(ResultOthers) = 0

(***************************************************************************)
(* SlidingWindowMemory (src/memory/sliding-window.ts).                     *)
(***************************************************************************)
MaxWindow == 2
MaxSaved == 4

\* Array.prototype.slice(start)
slice(s, start) ==
    LET from == IF start < 0 THEN Max(Len(s) + start, 0) ELSE Min(start, Len(s))
    IN  SubSeq(s, from + 1, Len(s))

applyWindow(messages) ==
    LET systemMessages == IF windowOptions.keepSystemMessages
                          THEN SelectSeq(messages, LAMBDA m : m.role = "system")
                          ELSE <<>>
        nonSystemMessages == IF windowOptions.keepSystemMessages
                             THEN SelectSeq(messages, LAMBDA m : m.role # "system")
                             ELSE messages
        windowed == slice(nonSystemMessages, 0 - windowOptions.windowSize)
    IN  systemMessages \o windowed

\* The message lists a host saves in one call: a message's id is its
\* position among the messages saved under the conversation id.
SavedLists(id) ==
    UNION {{[i \in 1..n |->
                [id |-> Len(windowSaved[id]) + i, role |-> roles[i],
                 content |-> SeedText, name |-> None]] :
            roles \in [1..n -> {"system", "user"}]} : n \in 0..2}

\* SlidingWindowMemory.save
windowSave(id, messages) ==
    /\ Len(windowSaved[id]) + Len(messages) <= MaxSaved
    /\ LET existing == windowStore[id]
           all == existing \o messages
       IN  windowStore' = [windowStore EXCEPT ![id] = applyWindow(all)]
    /\ windowSaved' = [windowSaved EXCEPT ![id] = @ \o messages]
    /\ UNCHANGED windowOptions
    /\ UNCHANGED besidesWindow

\* SpecWindow: a SlidingWindowMemory created with some options receives
\* save calls.
InitWindow ==
    /\ IdleEngine
    /\ NoLimiter /\ NoFilter /\ NoPipeline /\ NoTruncation /\ LaterIdle
    /\ windowOptions \in [windowSize : 0..MaxWindow, keepSystemMessages : BOOLEAN]
    /\ windowStore = [id \in WindowIds |-> <<>>]
    /\ windowSaved = [id \in WindowIds |-> <<>>]

NextWindow == \E id \in WindowIds : \E messages \in SavedLists(id) : windowSave(id, messages)

SpecWindow == InitWindow /\ [][NextWindow]_vars

(***************************************************************************)
(* Properties of SlidingWindowMemory.                                      *)
(***************************************************************************)
SavedOthers(id) == SelectSeq(windowSaved[id], LAMBDA m : m.role # "system")

StoredOthers(id) == SelectSeq(windowStore[id], LAMBDA m : m.role # "system")

\* C20: after any sequence of save calls with window size w on one
\* conversation id, the stored non-system messages are exactly the most
\* recent min(w, n) of the n non-system messages saved so far, in insertion
\* order, so their count never exceeds w.
C20_StoresMostRecentWindow ==
    \A id \in WindowIds :
        LET n == Len(SavedOthers(id))
            k == Min(windowOptions.windowSize, n)
        IN  /\ StoredOthers(id) = SubSeq(SavedOthers(id), n - k + 1, n)
            /\ Len(StoredOthers(id)) <= windowOptions.windowSize


(***************************************************************************)
(* SummaryMemory (src/memory/summary.ts).  save() awaits the summarizer,   *)
(* so it is two segments: the call up to the await, and the rest once the  *)
(* summarizer has settled.                                                 *)
(***************************************************************************)
MaxRecent == 2
MaxSummarySaves == 2
MaxContextTokens == 16

\* 'Previous conversation summary:'
SummaryPrefix ==
    <<"P", "r", "e", "v", "i", "o", "u", "s", " ", "c", "o", "n", "v", "e", "r", "s",
      "a", "t", "i", "o", "n", " ", "s", "u", "m", "m", "a", "r", "y", ":">>

\* What a custom summarizer may resolve to.
CustomSummaries == {<<>>, <<"s">>}

\* The contents of the messages a host saves; the second one quotes an
\* earlier summary.
SummaryTexts == {<<"h", "i">>, SummaryPrefix \o <<"x">>}

SummaryLimit == 500

RoleText(role) ==
    CASE role = "user" -> <<"u", "s", "e", "r">>
      [] role = "assistant" -> <<"a", "s", "s", "i", "s", "t", "a", "n", "t">>
      [] OTHER -> <<"s", "y", "s", "t", "e", "m">>

\* Array.prototype.join
RECURSIVE join(_, _)
join(texts, sep) ==
    IF Len(texts) = 0 THEN <<>>
    ELSE IF Len(texts) = 1 THEN texts[1]
    ELSE texts[1] \o sep \o join(Tail(texts), sep)

\* String.prototype.startsWith
startsWith(text, prefix) ==
    Len(text) >= Len(prefix) /\ SubSeq(text, 1, Len(prefix)) = prefix

defaultSummarizer(messages) ==
    LET content == join([k \in 1..Len(messages) |-> messages[k].content], <<"\n">>)
    IN  IF Len(content) > SummaryLimit
        THEN SubSeq(content, 1, SummaryLimit - 3) \o <<".", ".", ".">>
        ELSE content

\* Every message passed to save under `id` so far, in call order.
RECURSIVE SavedUpTo(_, _)
SavedUpTo(id, k) ==
    IF k = 0 THEN <<>>
    ELSE SavedUpTo(id, k - 1)
         \o (IF summarySaves[k].id = id THEN summarySaves[k].messages ELSE <<>>)

SummarySaved(id) == SavedUpTo(id, Len(summarySaves))

\* The message lists a host saves in one call, one text per call: a
\* message's id is its position among the messages saved under the
\* conversation id.
SummaryLists(id) ==
    UNION {{[i \in 1..n |->
                [id |-> Len(SummarySaved(id)) + i, role |-> "user",
                 content |-> text, name |-> None]] :
            text \in SummaryTexts} : n \in 1..2}

\* save, line 42: all.slice(-this.options.recentCount)
summaryRecent(all) == slice(all, 0 - summaryOptions.recentCount)

\* SummaryMemory.save up to `await this.options.summarizer(...)`, or to its
\* end when nothing overflows.
summarySave(id, messages) ==
    /\ Len(summarySaves) < MaxSummarySaves
    /\ LET existing == summaryStore[id]
           all == existing \o messages
           overflow == Len(all) > summaryOptions.recentCount
           toSummarize == SubSeq(all, 1, Len(all) - summaryOptions.recentCount)
           existingSummary == IF summaries[id] = None THEN <<>> ELSE summaries[id]
           newContent ==
               join([k \in 1..Len(toSummarize) |->
                        RoleText(toSummarize[k].role) \o <<":", " ">>
                        \o toSummarize[k].content],
                    <<"\n">>)
           combinedContent == IF existingSummary # <<>>
                              THEN existingSummary \o <<"\n">> \o newContent
                              ELSE newContent
       IN  /\ summarySaves' =
                 Append(summarySaves,
                        [id |-> id, messages |-> messages, overflow |-> overflow,
                         status |-> IF overflow THEN "pending" ELSE "done",
                         combinedContent |-> IF overflow THEN combinedContent ELSE <<>>,
                         toSummarize |-> IF overflow THEN toSummarize ELSE <<>>,
                         recent |-> IF overflow THEN summaryRecent(all) ELSE <<>>,
                         summary |-> None])
           /\ summaryStore' = IF overflow THEN summaryStore
                              ELSE [summaryStore EXCEPT ![id] = all]
    /\ UNCHANGED <<summaryOptions, summaries, summaryContext>>
    /\ UNCHANGED besidesSummary

\* What the awaited summarizer may resolve to.
SummarizerResults(call) ==
    IF summaryOptions.summarizer = "default"
    THEN {defaultSummarizer(<<createMessage(0, "system", call.combinedContent)>>)}
    ELSE CustomSummaries

\* save, lines 53-54: the summarizer has resolved.
summarizerResolves(k) ==
    /\ k \in 1..Len(summarySaves)
    /\ summarySaves[k].status = "pending"
    /\ \E summary \in SummarizerResults(summarySaves[k]) :
         /\ summaries' = [summaries EXCEPT ![summarySaves[k].id] = summary]
         /\ summarySaves' = [summarySaves EXCEPT ![k].status = "done",
                                                 ![k].summary = summary]
    /\ summaryStore' = [summaryStore EXCEPT ![summarySaves[k].id] = summarySaves[k].recent]
    /\ UNCHANGED <<summaryOptions, summaryContext>>
    /\ UNCHANGED besidesSummary

\* A custom summarizer rejects: save rejects and stores nothing.
summarizerRejects(k) ==
    /\ k \in 1..Len(summarySaves)
    /\ summarySaves[k].status = "pending"
    /\ summaryOptions.summarizer = "custom"
    /\ summarySaves' = [summarySaves EXCEPT ![k].status = "threw"]
    /\ UNCHANGED <<summaryOptions, summaryStore, summaries, summaryContext>>
    /\ UNCHANGED besidesSummary

\* SummaryMemory.load
summaryLoad(id) ==
    LET messages == summaryStore[id]
        summary == summaries[id]
    IN  IF summary # None /\ summary # <<>>
        THEN <<createMessage(0, "system", SummaryPrefix \o <<"\n">> \o summary)>>
             \o messages
        ELSE messages

\* Array.prototype.findIndex for the non-summary test of line 84 (0: none).
FirstNonSummary(result) ==
    LET found == {k \in 1..Len(result) : ~startsWith(result[k].content, SummaryPrefix)}
    IN  IF found = {} THEN 0 ELSE CHOOSE k \in found : \A j \in found : k <= j

\* Array.prototype.splice(idx, 1)
RemoveAt(s, idx) == SubSeq(s, 1, idx - 1) \o SubSeq(s, idx + 1, Len(s))

\* getContext, lines 82-88: the eviction loop.
RECURSIVE Evict(_, _, _)
Evict(result, total, budget) ==
    IF total > budget /\ Len(result) > 1
    THEN LET idx == FirstNonSummary(result)
         IN  IF idx = 0 THEN result
             ELSE Evict(RemoveAt(result, idx),
                        total - (estimateTokens(result[idx].content) + 4), budget)
    ELSE result

\* SummaryMemory.getContext
summaryGetContext(id, budget) ==
    /\ LET messages == summaryLoad(id)
           total == estimateMessagesTokens(messages)
       IN  summaryContext' =
              [returned |-> TRUE, maxTokens |-> budget, loaded |-> messages,
               result |-> Evict(messages, total, budget)]
    /\ UNCHANGED <<summaryOptions, summaryStore, summaries, summarySaves>>
    /\ UNCHANGED besidesSummary

\* SpecSummary: a SummaryMemory created with some options receives save
\* calls, which may overlap; the host then reads the context.
InitSummary ==
    /\ IdleEngine
    /\ NoLimiter /\ NoFilter /\ NoPipeline /\ NoTruncation /\ NoWindow
    /\ NoStreamer /\ NoMock /\ NoPluginManager /\ FinalIdle
    /\ summaryOptions \in [recentCount : 0..MaxRecent, summarizer : {"default", "custom"}]
    /\ summaryStore = [id \in SummaryIds |-> <<>>]
    /\ summaries = [id \in SummaryIds |-> None]
    /\ summarySaves = <<>>
    /\ summaryContext = NoContext

NextSummary ==
    \/ /\ ~summaryContext.returned
       /\ \E id \in SummaryIds : \E messages \in SummaryLists(id) : summarySave(id, messages)
    \/ /\ ~summaryContext.returned
       /\ \E k \in 1..MaxSummarySaves : summarizerResolves(k)
    \/ /\ ~summaryContext.returned
       /\ \E k \in 1..MaxSummarySaves : summarizerRejects(k)
    \/ \E id \in SummaryIds :
         \E budget \in {0, MaxContextTokens \div 2, MaxContextTokens} :
            summaryGetContext(id, budget)

SpecSummary == InitSummary /\ [][NextSummary]_vars

(***************************************************************************)
(* Properties of SummaryMemory.                                            *)
(***************************************************************************)
\* The last n elements of s.
LastN(s, n) == SubSeq(s, Len(s) - Min(n, Len(s)) + 1, Len(s))

\* Save call k completes in this step, its summarizer having resolved.
OverflowCompletes(k) ==
    /\ k \in 1..Len(summarySaves)
    /\ summarySaves[k].status = "pending"
    /\ summarySaves'[k].status = "done"

\* C21: when a save that overflows completes, the raw store of its id holds
\* exactly the recentCount most recent of the messages saved under the id,
\* in insertion order, and the id's summary is the summarizer's result.
C21_OverflowKeepsRecentAndOneSummary ==
    [][\A k \in 1..MaxSummarySaves :
          OverflowCompletes(k) =>
             LET id == summarySaves[k].id
             IN  /\ Len(summaryStore'[id]) = summaryOptions.recentCount
                 /\ summaryStore'[id] =
                       LastN(SummarySaved(id), summaryOptions.recentCount)
                 /\ summaries'[id] = summarySaves'[k].summary]_vars

\* Whether m is the summary message that load puts first.
IsSummaryMessage(m) == m.role = "system" /\ m.id = 0

\* C22: what getContext returns either fits maxTokens or is the summary
\* message alone; it is what load returned less some of the oldest
\* non-summary messages, the summary message being kept.
C22_ContextFitsOrSummaryAlone ==
    summaryContext.returned =>
        LET result == summaryContext.result
            loaded == summaryContext.loaded
        IN  /\ \/ estimateMessagesTokens(result) <= summaryContext.maxTokens
               \/ Len(result) = 1 /\ IsSummaryMessage(result[1])
            /\ Len(loaded) > 0 /\ IsSummaryMessage(loaded[1]) =>
                  Len(result) > 0 /\ result[1] = loaded[1]


(***************************************************************************)
(* ChatEngine: what the engine retains, tool calls, and the two paths.     *)
(***************************************************************************)
\* config.memory.windowSize
MemoryWindowSize == 2

\* The message of the TypeError the runtime raises for `undefined.length`.
TypeErrorMessage == <<"T", "y", "p", "e", "E", "r", "r", "o", "r">>

\* addMessage with a message whose content is undefined: the message is
\* pushed and counted (lines 238-239), then estimateTokens throws (line 240).
addMessageThrows(convs, id, message) ==
    LET c == convs[id]
        pushed == Append(c.messages, message)
    IN  [convs EXCEPT ![id] = [c EXCEPT !.messages = pushed, !.messageCount = Len(pushed)]]

\* handleToolCalls: the awaited tool.execute resolves to undefined.
\* JSON.stringify(undefined) is undefined (line 313), so the addMessage of
\* line 316 throws after its push; the catch block of line 317 stores a
\* 'Tool error' message.
ToolResolvesUndefined(r) ==
    /\ pc[r] = "tool"
    /\ LET s == Bundle(r)
           i == s.loc.idx
           s1 == Log([s EXCEPT !.convs = addMessageThrows(@, s.loc.conv,
                                             ToolMessage(r, i, None))],
                     "addMessage", "tool", "undefined")
           errorMessage == createMessage(MsgId(r, "tool error", i), "tool",
                                         ToolErrorPrefix \o TypeErrorMessage)
           s2 == Log([s1 EXCEPT !.convs = addMessage(@, s.loc.conv, errorMessage)],
                     "addMessage", "tool", "error")
       IN  Commit(r, ToolsFrom(r, s2, i + 1))
    /\ UNCHANGED rq

\* The provider's stream yields a tool_call chunk.
ProviderYieldsToolCall(r) ==
    /\ pc[r] = "awaitChunk"
    /\ reader[r].at = "none"
    /\ Len(loc[r].produced) < MaxChunks
    /\ Commit(r, Produce(Bundle(r), [type |-> "tool_call", data |-> NotAString]))
    /\ UNCHANGED rq

\* A stream() call whose provider yielded a tool_call chunk first has run
\* until its provider's stream was exhausted.
StreamedToolCall(r) ==
    /\ pc[r] = "done"
    /\ out[r].status = "exhausted"
    /\ Len(yielded[r]) = MaxChunks
    /\ yielded[r][1].type = "tool_call"

\* SpecTools: on an engine with one middleware, one plugin implementing
\* every hook and a tool that may have an execute function, the host issues
\* one stream() call and, once a tool_call chunk has gone through it and it
\* has ended, one chat() call.
InitTools ==
    /\ initialized = FALSE
    /\ middlewares = <<[name |-> MwNames[1], priority |-> <<>>]>>
    /\ plugins = <<[name |-> PluginNames[1], hooks |-> HookNames]>>
    /\ tools \in [ToolNames -> {"noexec", "exec"}]
    /\ conversations = [id \in ConvIds |-> NoConv]
    /\ pc = [r \in Requests |-> "idle"]
    /\ rq = [r \in Requests |-> IdleRequest]
    /\ loc = [r \in Requests |-> IdleLocals]
    /\ out = [r \in Requests |-> IdleOutcome]
    /\ trace = [r \in Requests |-> <<>>]
    /\ yielded = [r \in Requests |-> <<>>]
    /\ reader = [r \in Requests |-> NoReader]
    /\ StandaloneIdle

NextTools ==
    \/ stream("r1")
    \/ InitHookSettles("r1")
    \/ InitResolved("r1")
    \/ StreamSteps("r1")
    \/ ProviderYieldsToolCall("r1")
    \/ StreamedToolCall("r1") /\ chat("r2")
    \/ ChatSteps("r2")
    \/ ToolResolvesUndefined("r2")

SpecTools == InitTools /\ [][NextTools]_vars

(***************************************************************************)
(* Further properties of ChatEngine.                                       *)
(***************************************************************************)
\* How many messages the memory configuration admits: the window size, or
\* as many messages as fit the token budget at 4 tokens and more each.
MemoryBound == Max(MemoryWindowSize, MemoryMaxTokens \div 4)

\* C23: after any number of chat() and stream() turns on one conversation
\* id, the number of messages the engine retains for that id does not
\* exceed the bound given by the memory configuration.
C23_RetainedWithinMemoryBound ==
    \A id \in ConvIds : Len(getMessages(conversations, id)) <= MemoryBound

\* The events of call r that handle a tool call, and those that call an
\* onAfterChat hook.
ToolEvents(r) ==
    {i \in Events(r) : \/ trace[r][i].ev = "tool.execute"
                       \/ trace[r][i].ev = "addMessage" /\ trace[r][i].who = "tool"}

AfterChatEvents(r) == {i \in Events(r) : trace[r][i].ev = "onAfterChat"}

\* A chat() whose provider call resolved has returned its response.
SucceededChat(r) ==
    /\ rq[r].kind = "chat"
    /\ pc[r] = "done"
    /\ out[r].status = "returned"
    /\ \E i \in Events(r) : trace[r][i] = Ev("provider.complete", "", "ok")

\* C25: stream() never executes a tool call and never invokes an
\* onAfterChat hook; a chat() that succeeds has executed every returned
\* tool call that names an executable tool and has then invoked the
\* onAfterChat hook of every plugin that has one.
C25_StreamSkipsToolsAndAfterChat ==
    \A r \in Requests :
        /\ rq[r].kind = "stream" => ToolEvents(r) = {} /\ AfterChatEvents(r) = {}
        /\ SucceededChat(r) =>
              /\ Cardinality({i \in Events(r) : trace[r][i].ev = "tool.execute"})
                    = Cardinality({k \in 1..Len(out[r].toolCalls) :
                                      ToolState(out[r].toolCalls[k]) = "exec"})
              /\ \A k \in 1..Len(plugins) :
                    "onAfterChat" \in plugins[k].hooks =>
                        \E j \in Events(r) :
                            /\ trace[r][j] = Ev("onAfterChat", plugins[k].name, "call")
                            /\ \A i \in ToolEvents(r) : i < j

\* A stream() that was handed a tool_call chunk has ended, and a chat()
\* whose provider returned tool calls has succeeded.
C25_Witness ==
    /\ rq["r1"].kind = "stream"
    /\ StreamedToolCall("r1")
    /\ SucceededChat("r2")
    /\ Len(out["r2"].toolCalls) = 2
    /\ AfterChatEvents("r2") # {}

\* handleToolCalls of call r has run to its end.
ToolsHandled(r) ==
    /\ rq[r].kind = "chat"
    /\ pc[r] \in {"after", "onError", "done"}
    /\ \E i \in Events(r) : trace[r][i] = Ev("provider.complete", "", "ok")

\* C26: in chat(), every returned tool call appends exactly one tool-role
\* message, in the order returned and after the assistant message, whether
\* the tool is missing, throws or resolves; and the tool calls do not keep
\* chat() from returning the response.
C26_EachToolCallAppendsOneMessage ==
    \A r \in Requests :
        ToolsHandled(r) =>
            LET stored == SelectSeq(getMessages(conversations, TargetOf(r)),
                                    LAMBDA m : m.id.req = r /\ m.role # "user")
                n == Len(loc[r].toolCalls)
            IN  /\ Len(stored) = n + 1
                /\ stored[1].role = "assistant"
                /\ \A k \in 1..n : /\ stored[k + 1].role = "tool"
                                   /\ stored[k + 1].id = MsgId(r, "tool", k)
                /\ pc[r] = "done" /\ loc[r].err # "onAfterChat"
                      => out[r].status = "returned"

\* The calls to a plugin's onInit hook that the engine has made so far.
InitCalls(name) ==
    {<<r, i>> \in Requests \X (1..20) :
        i <= Len(trace[r]) /\ trace[r][i] = Ev("onInit", name, "call")}

\* C28: each registered plugin's onInit hook runs at most once, for any
\* sequence of chat() calls, including calls that overlap while init() is
\* awaiting a hook.
C28_OnInitRunsAtMostOnce ==
    \A k \in 1..Len(plugins) : Cardinality(InitCalls(plugins[k].name)) <= 1


(***************************************************************************)
(* MockProvider (src/providers/mock.ts).  stream() is an async generator:  *)
(* it runs when its consumer pulls, from one yield to the next.            *)
(***************************************************************************)
MaxMockCalls == 2

\* Responses a host may configure.
MockResponses == {<<>>, <<"a", " ", "b">>, <<" ", "a", " ", " ">>}
\* The trigger maps a host may pass to the constructor.
MockTriggers ==
    {<<>>,
     <<[trigger |-> <<"h", "i">>, response |-> <<"c", " ", "d">>]>>,
     <<[trigger |-> <<"H">>, response |-> <<"c">>]>>}
\* request.messages
MockRequests ==
    {<<[role |-> "user", content |-> <<"H", "i">>]>>,
     <<[role |-> "user", content |-> <<"y", "o">>],
       [role |-> "assistant", content |-> <<"H", "i">>]>>}

\* 'Mock provider simulated error'
SimulatedErrorText == <<"s", "i", "m", "u", "l", "a", "t", "e", "d">>

\* String.prototype.toLowerCase, on the letters the requests use.
toLowerCase(text) ==
    [k \in 1..Len(text) |-> IF text[k] = "H" THEN "h" ELSE text[k]]

\* String.prototype.includes
includes(text, part) ==
    \E from \in 0..(Len(text) - Len(part)) :
        SubSeq(text, from + 1, from + Len(part)) = part

\* String.prototype.split(' ')
RECURSIVE split(_)
split(text) ==
    LET spaces == {k \in 1..Len(text) : text[k] = " "}
    IN  IF spaces = {} THEN <<text>>
        ELSE LET k == CHOOSE k \in spaces : \A j \in spaces : k <= j
             IN  <<SubSeq(text, 1, k - 1)>> \o split(SubSeq(text, k + 1, Len(text)))

\* MockProvider.getResponse
getResponse(options, messages) ==
    LET users == {k \in 1..Len(messages) : messages[k].role = "user"}
        last == CHOOSE k \in users : \A j \in users : j <= k
        content == toLowerCase(messages[last].content)
        hits == {k \in 1..Len(options.responses) :
                    includes(content, options.responses[k].trigger)}
    IN  IF users # {} /\ hits # {}
        THEN options.responses[CHOOSE k \in hits : \A j \in hits : k <= j].response
        ELSE options.defaultResponse

\* Faulty variant of StreamToken: the separating space is dropped.
StreamTokenNoSpace(words, i) == words[i]

\* stream, line 103: the i-th token (i counts from 1).
StreamToken(words, i) == IF i = 1 THEN words[i] ELSE <<" ">> \o words[i]

\* The call record of a complete() or stream() call.
MockCall(kind, messages) ==
    [kind |-> kind, messages |-> messages, status |-> "running", options |-> mockOptions,
     content |-> None, words |-> <<>>, chunks |-> <<>>]

\* complete, lines 68-88: the response once the latency has passed.
Completed(call) ==
    [call EXCEPT !.status = "returned", !.options = mockOptions,
                 !.content = getResponse(mockOptions, call.messages)]

\* MockProvider.complete up to its first await, or to its end.
mockComplete(messages, random) ==
    /\ Len(mockCalls) < MaxMockCalls
    /\ callCount' = callCount + 1
    /\ LET call == MockCall("complete", messages)
       IN  mockCalls' =
              Append(mockCalls,
                     IF mockOptions.simulateErrors /\ random
                     THEN [call EXCEPT !.status = "threw"]
                     ELSE IF mockOptions.latencyMs > 0 THEN call
                     ELSE Completed(call))
    /\ UNCHANGED mockOptions
    /\ UNCHANGED besidesMock

\* complete, line 65: `await delay(this.options.latencyMs)` resumes.
mockCompleteResumes(k) ==
    /\ k \in 1..Len(mockCalls)
    /\ mockCalls[k].kind = "complete"
    /\ mockCalls[k].status = "running"
    /\ mockCalls' = [mockCalls EXCEPT ![k] = Completed(@)]
    /\ UNCHANGED <<mockOptions, callCount>>
    /\ UNCHANGED besidesMock

\* MockProvider.stream, lines 92-109: the consumer's first pull.
mockStream(messages, random) ==
    /\ Len(mockCalls) < MaxMockCalls
    /\ callCount' = callCount + 1
    /\ LET call == MockCall("stream", messages)
           words == split(getResponse(mockOptions, messages))
       IN  mockCalls' =
              Append(mockCalls,
                     IF mockOptions.simulateErrors /\ random
                     THEN [call EXCEPT
                              !.status = "error",
                              !.chunks = <<[type |-> "error", data |-> SimulatedErrorText]>>]
                     ELSE [call EXCEPT
                              !.words = words,
                              !.chunks = <<[type |-> "token",
                                            data |-> StreamToken(words, 1)]>>])
    /\ UNCHANGED mockOptions
    /\ UNCHANGED besidesMock

\* stream, lines 102-123: the consumer pulls again.
mockStreamNext(k) ==
    /\ k \in 1..Len(mockCalls)
    /\ mockCalls[k].kind = "stream"
    /\ mockCalls[k].status = "running"
    /\ LET call == mockCalls[k]
           i == Len(call.chunks) + 1
       IN  mockCalls' =
              [mockCalls EXCEPT ![k] =
                  IF i <= Len(call.words)
                  THEN [call EXCEPT !.chunks = Append(@, [type |-> "token",
                                          data |-> StreamToken(call.words, i)])]
                  ELSE [call EXCEPT !.status = "done",
                                    !.chunks = Append(@, [type |-> "done", data |-> None])]]
    /\ UNCHANGED <<mockOptions, callCount>>
    /\ UNCHANGED besidesMock

\* MockProvider.setDefaultResponse
setDefaultResponse(response) ==
    /\ mockOptions.defaultResponse # response
    /\ mockOptions' = [mockOptions EXCEPT !.defaultResponse = response]
    /\ UNCHANGED <<callCount, mockCalls>>
    /\ UNCHANGED besidesMock

\* SpecMock: a MockProvider created with some options receives complete()
\* and stream() calls; the host may change the default response meanwhile.
InitMock ==
    /\ IdleEngine
    /\ NoLimiter /\ NoFilter /\ NoPipeline /\ NoTruncation /\ NoWindow
    /\ NoSummaryMemory /\ NoStreamer /\ NoPluginManager /\ FinalIdle
    /\ mockOptions \in [defaultResponse : MockResponses, responses : MockTriggers,
                        simulateErrors : BOOLEAN, latencyMs : 0..1]
    /\ callCount = 0
    /\ mockCalls = <<>>

NextMock ==
    \/ \E messages \in MockRequests, random \in BOOLEAN : mockComplete(messages, random)
    \/ \E k \in 1..MaxMockCalls : mockCompleteResumes(k)
    \/ \E messages \in MockRequests, random \in BOOLEAN : mockStream(messages, random)
    \/ \E k \in 1..MaxMockCalls : mockStreamNext(k)
    \/ setDefaultResponse(<<"a", " ", "b">>)

SpecMock == InitMock /\ [][NextMock]_vars

(***************************************************************************)
(* Properties of MockProvider.                                             *)
(***************************************************************************)
\* A complete() call that returned and a stream() call that ran to its
\* done chunk, for the same request and the same options.
SameInput(i, j) ==
    /\ mockCalls[i].kind = "complete" /\ mockCalls[i].status = "returned"
    /\ mockCalls[j].kind = "stream" /\ mockCalls[j].status = "done"
    /\ mockCalls[i].messages = mockCalls[j].messages
    /\ mockCalls[i].options = mockCalls[j].options

\* C24: for the same input, the in-order concatenation of the token chunks
\* of MockProvider.stream equals the content MockProvider.complete returns.
C24_StreamReassemblesComplete ==
    \A i, j \in 1..Len(mockCalls) :
        SameInput(i, j) => TokenText(mockCalls[j].chunks) = mockCalls[i].content

\* Both calls were answered with a response of several words.
C24_Witness ==
    \E i, j \in 1..Len(mockCalls) :
        /\ SameInput(i, j)
        /\ Len(mockCalls[j].words) > 2
        /\ mockCalls[i].content # <<>>


(***************************************************************************)
(* PluginManager (src/plugins/plugin-manager.ts).  Each of its methods     *)
(* loops over the plugins and awaits the hooks one after the other: a      *)
(* segment runs from one awaited hook to the next.  The values handed from *)
(* hook to hook are the lists of the plugins that have produced them.      *)
(***************************************************************************)
MaxManaged == 2

\* The hook subsets a plugin registered with the manager may implement.
ManagedShapes == {HookNames, {"onBeforeChat", "onError"}}

\* The hook each method of the manager runs.
HookOf(kind) ==
    CASE kind = "init" -> "onInit"
      [] kind = "beforeChat" -> "onBeforeChat"
      [] kind = "afterChat" -> "onAfterChat"
      [] kind = "onError" -> "onError"
      [] OTHER -> "onDestroy"

\* The methods whose hooks pass a value on.
Chaining == {"beforeChat", "afterChat"}

\* PluginManager.register; a name already registered throws.
pmRegister(name, hooks) ==
    /\ Len(pmPlugins) < MaxManaged
    /\ \A k \in 1..Len(pmPlugins) : pmPlugins[k].name # name
    /\ pmPlugins' = MapSet(pmPlugins, [name |-> name, hooks |-> hooks])
    /\ UNCHANGED <<pmInitialized, pmRun>>
    /\ UNCHANGED besidesPm

\* PluginManager.unregister, called between two methods of the manager.
pmUnregister(name) ==
    /\ pmRun.status # "awaiting"
    /\ \E k \in 1..Len(pmPlugins) : pmPlugins[k].name = name
    /\ pmPlugins' = MapDelete(pmPlugins, name)
    /\ UNCHANGED <<pmInitialized, pmRun>>
    /\ UNCHANGED besidesPm

\* Faulty variant of Visit: the hook is handed the method's argument.
VisitWithInput(run, plugin) ==
    [run EXCEPT !.pos = @ + 1,
                !.log = Append(@, [plugin |-> plugin.name,
                                   called |-> HookOf(run.kind) \in plugin.hooks,
                                   received |-> run.input, returned |-> None])]

\* One iteration of a method's loop, up to the call of the hook if the
\* plugin has it.
Visit(run, plugin) ==
    [run EXCEPT !.pos = @ + 1,
                !.log = Append(@, [plugin |-> plugin.name,
                                   called |-> HookOf(run.kind) \in plugin.hooks,
                                   received |-> run.value, returned |-> None])]

\* The loop from the plugin after run.pos on, up to its next await or to
\* the end of the method.
RECURSIVE Iterate(_, _)
Iterate(run, registered) ==
    IF run.pos >= Len(registered)
    THEN [run EXCEPT !.status = "returned", !.size = Len(registered)]
    ELSE LET visited == Visit(run, registered[run.pos + 1])
         IN  IF visited.log[Len(visited.log)].called
             THEN [visited EXCEPT !.status = "awaiting"]
             ELSE Iterate(visited, registered)

\* What a method changes when its loop has ended (init: line 183,
\* destroy: lines 235-236).
Finish(run) ==
    /\ pmRun' = run
    /\ IF run.status = "returned" /\ run.kind = "destroy"
       THEN pmPlugins' = <<>> /\ pmInitialized' = FALSE
       ELSE IF run.status = "returned" /\ run.kind = "init"
       THEN pmInitialized' = TRUE /\ UNCHANGED pmPlugins
       ELSE UNCHANGED <<pmPlugins, pmInitialized>>

\* init, beforeChat, afterChat, onError or destroy is called.
pmCall(kind) ==
    /\ pmRun.status # "awaiting"
    /\ LET run == [NoRun EXCEPT !.kind = kind]
       IN  IF kind = "init" /\ pmInitialized
           THEN /\ pmRun' = [run EXCEPT !.status = "returned"]
                /\ UNCHANGED <<pmPlugins, pmInitialized>>
           ELSE Finish(Iterate(run, pmPlugins))
    /\ UNCHANGED besidesPm

\* The awaited hook resolves, with a value made from the one it received or
\* with one of its own.
pmHookResolves(fresh) ==
    /\ pmRun.status = "awaiting"
    /\ LET name == pmPlugins[pmRun.pos].name
           returned == IF fresh THEN <<name>> ELSE Append(pmRun.value, name)
           run == [pmRun EXCEPT !.log[Len(pmRun.log)].returned = returned,
                                !.value = IF pmRun.kind \in Chaining THEN returned ELSE @]
       IN  Finish(Iterate(run, pmPlugins))
    /\ UNCHANGED besidesPm

\* The awaited hook rejects: the method rejects.
pmHookRejects ==
    /\ pmRun.status = "awaiting"
    /\ pmRun' = [pmRun EXCEPT !.status = "threw"]
    /\ UNCHANGED <<pmPlugins, pmInitialized>>
    /\ UNCHANGED besidesPm

\* SpecPlugins: a host registers plugins with a PluginManager, also while a
\* method is awaiting a hook, and calls its methods one after the other.
InitPlugins ==
    /\ IdleEngine
    /\ NoLimiter /\ NoFilter /\ NoPipeline /\ NoTruncation /\ NoWindow
    /\ NoSummaryMemory /\ NoStreamer /\ NoMock /\ FinalIdle
    /\ NoPluginManager

NextPlugins ==
    \/ \E k \in 1..MaxManaged, hooks \in ManagedShapes : pmRegister(PluginNames[k], hooks)
    \/ \E k \in 1..MaxManaged : pmUnregister(PluginNames[k])
    \/ \E kind \in {"init", "beforeChat", "afterChat", "onError", "destroy"} : pmCall(kind)
    \/ \E fresh \in BOOLEAN : pmHookResolves(fresh)
    \/ pmHookRejects

SpecPlugins == InitPlugins /\ [][NextPlugins]_vars

(***************************************************************************)
(* Properties of PluginManager.                                            *)
(***************************************************************************)
\* The iterations of the current method at which a hook was called.
Called == {k \in 1..Len(pmRun.log) : pmRun.log[k].called}

\* The last called iteration before iteration k (0: none).
PreviousCalled(k) ==
    LET before == {j \in Called : j < k}
    IN  IF before = {} THEN 0 ELSE CHOOSE j \in before : \A h \in before : h <= j

\* C27: a method of the manager visits the plugins in registration order
\* and awaits one hook at a time; a plugin without the hook is passed over;
\* each onBeforeChat and onAfterChat hook receives what the previous such
\* hook returned (the first one the method's argument), and the method
\* returns what the last one returned.
C27_HooksInRegistrationOrderChained ==
    LET log == pmRun.log
    IN  /\ pmRun.status = "awaiting" =>
              /\ Len(log) = pmRun.pos
              /\ \A k \in 1..Len(log) :
                    /\ log[k].plugin = pmPlugins[k].name
                    /\ log[k].called = (HookOf(pmRun.kind) \in pmPlugins[k].hooks)
              /\ log[Len(log)].called
        /\ pmRun.status = "returned" => Len(log) = pmRun.size
        /\ \A k \in 1..Len(log) :
              (log[k].returned = None /\ log[k].called)
                  => k = Len(log) /\ pmRun.status \in {"awaiting", "threw"}
        /\ \A k \in Called :
              log[k].received =
                  IF pmRun.kind \in Chaining /\ PreviousCalled(k) # 0
                  THEN log[PreviousCalled(k)].returned
                  ELSE pmRun.input
        /\ (pmRun.status = "returned" /\ pmRun.kind \in Chaining /\ Called # {})
              => pmRun.value = log[PreviousCalled(Len(log) + 1)].returned

\* beforeChat has returned after two plugins, registered in this order, had
\* their hooks awaited, the second one receiving the first one's value.
C27_Witness ==
    /\ pmRun.kind = "beforeChat"
    /\ pmRun.status = "returned"
    /\ Len(pmRun.log) = 2
    /\ pmRun.log[1].called /\ pmRun.log[2].called
    /\ pmRun.log[2].received = <<pmRun.log[1].plugin>>
    /\ pmRun.value = <<pmRun.log[1].plugin, pmRun.log[2].plugin>>


(***************************************************************************)
(* TokenStreamer (src/streaming/token-streamer.ts).  streamerIO records    *)
(* the text written, the chunks the methods returned to their caller and   *)
(* the chunks handed to the onEmit callback.                               *)
(***************************************************************************)
MaxBufferSize == 3
MaxWrites == 2

\* The texts a producer writes.
WriteTexts == {<<"a">>, <<" ">>, <<"a", " ", "b">>}

\* String.prototype.lastIndexOf(' '), counting from 0 (-1: none).
lastIndexOf(text) ==
    LET spaces == {k \in 1..Len(text) : text[k] = " "}
    IN  IF spaces = {} THEN -1
        ELSE (CHOOSE k \in spaces : \A j \in spaces : j <= k) - 1

\* A streamer's state and what a call on it returns:
\* [buffer, flushTimer, emitted (by this call), returned (by this call)].
Streamer == [buffer |-> buffer, flushTimer |-> flushTimer, emitted |-> <<>>, returned |-> <<>>]

\* Hands a token chunk to the callback, if one is set, and returns it.
Emit(s, content) ==
    LET chunk == [type |-> "token", data |-> content]
    IN  [s EXCEPT !.emitted = IF emitCallback THEN Append(@, chunk) ELSE @,
                  !.returned = Append(@, chunk)]

\* TokenStreamer.flush
flush(s) ==
    LET cleared == [s EXCEPT !.flushTimer = FALSE]
    IN  IF Len(s.buffer) = 0 THEN cleared
        ELSE Emit([cleared EXCEPT !.buffer = <<>>], s.buffer)

\* TokenStreamer.scheduleFlush
scheduleFlush(s) == [s EXCEPT !.flushTimer = TRUE]

\* TokenStreamer.maybeFlush
maybeFlush(s) ==
    LET lastSpace == lastIndexOf(s.buffer)
    IN  IF Len(s.buffer) < streamerOptions.bufferSize THEN scheduleFlush(s)
        ELSE IF streamerOptions.wordBoundary /\ lastSpace > 0
        THEN Emit([s EXCEPT !.buffer = SubSeq(s.buffer, lastSpace + 2, Len(s.buffer))],
                  SubSeq(s.buffer, 1, lastSpace + 1))
        ELSE flush(s)

\* The call's effect on the streamer and on what its consumers have
\* received; `kept` tells whether the caller gets the returned chunks.
Deliver(s, kept, last) ==
    /\ buffer' = s.buffer
    /\ flushTimer' = s.flushTimer
    /\ streamerIO' =
          [streamerIO EXCEPT !.emitted = @ \o s.emitted,
                             !.returned = @ \o (IF kept THEN s.returned ELSE <<>>) \o last]
    /\ UNCHANGED <<streamerOptions, emitCallback>>
    /\ UNCHANGED besidesStreamer

\* TokenStreamer.write
write(text) ==
    /\ ~streamerIO.finished
    /\ streamerIO.writes < MaxWrites
    /\ LET s == maybeFlush([Streamer EXCEPT !.buffer = @ \o text])
       IN  /\ buffer' = s.buffer
           /\ flushTimer' = s.flushTimer
           /\ streamerIO' =
                 [streamerIO EXCEPT !.written = @ \o text, !.writes = @ + 1,
                                    !.emitted = @ \o s.emitted,
                                    !.returned = @ \o s.returned]
    /\ UNCHANGED <<streamerOptions, emitCallback>>
    /\ UNCHANGED besidesStreamer

\* The host calls flush() and reads what it returns.
streamerFlush ==
    /\ ~streamerIO.finished
    /\ buffer # <<>>
    /\ Deliver(flush(Streamer), TRUE, <<>>)

\* scheduleFlush's timeout fires (lines 152-155): what flush returns goes
\* to no one.
timerFires ==
    /\ flushTimer
    /\ Deliver(flush([Streamer EXCEPT !.flushTimer = FALSE]), FALSE, <<>>)

\* TokenStreamer.done: what flush returns is dropped (line 96), the done
\* chunk is returned.
done ==
    /\ ~streamerIO.finished
    /\ streamerIO.writes > 0
    /\ LET s == flush(Streamer)
       IN  /\ buffer' = s.buffer
           /\ flushTimer' = s.flushTimer
           /\ streamerIO' =
                 [streamerIO EXCEPT !.emitted = @ \o s.emitted,
                                    !.returned = Append(@, [type |-> "done", data |-> None]),
                                    !.finished = TRUE]
    /\ UNCHANGED <<streamerOptions, emitCallback>>
    /\ UNCHANGED besidesStreamer

\* SpecStreamer: a TokenStreamer created with some options, with or without
\* an onEmit callback, is written to and then finished with done().
InitStreamer ==
    /\ IdleEngine
    /\ NoLimiter /\ NoFilter /\ NoPipeline /\ NoTruncation /\ NoWindow
    /\ NoSummaryMemory /\ NoMock /\ NoPluginManager /\ FinalIdle
    /\ buffer = <<>>
    /\ streamerOptions \in [bufferSize : 0..MaxBufferSize, wordBoundary : BOOLEAN]
    /\ flushTimer = FALSE
    /\ emitCallback \in BOOLEAN
    /\ streamerIO = NoIO

NextStreamer ==
    \/ \E text \in WriteTexts : write(text)
    \/ streamerFlush
    \/ timerFires
    \/ done

SpecStreamer == InitStreamer /\ [][NextStreamer]_vars

\* SpecStreamerLive: the same, and a pending timeout fires in the end.
SpecStreamerLive == SpecStreamer /\ WF_vars(timerFires)

(***************************************************************************)
(* Properties of TokenStreamer.                                            *)
(***************************************************************************)
\* C29: after write() calls followed by done(), the token chunks the
\* consumer has received concatenate to exactly the text written, whether
\* it reads what write() and done() return or uses the onEmit callback, and
\* they come ahead of the done chunk.
C29_DoneDeliversEverythingWritten ==
    streamerIO.finished =>
        /\ TokenText(streamerIO.returned) = streamerIO.written
        /\ emitCallback => TokenText(streamerIO.emitted) = streamerIO.written
        /\ streamerIO.returned[Len(streamerIO.returned)].type = "done"

\* C30: text in the buffer is emitted in the end without any further call,
\* in every mode.
C30_BufferedTextEventuallyEmitted == (buffer # <<>>) ~> (buffer = <<>>)


(***************************************************************************)
(* The logger middleware (src/middleware/logger.ts, createLogger).  The    *)
(* handler records each entry it is given; timestamps and durations are    *)
(* left out of the entries.                                                *)
(***************************************************************************)
MaxLoggerCalls == 2

LogLevels == {"debug", "info", "warn", "error"}

LOG_LEVEL_ORDER(level) ==
    CASE level = "debug" -> 0
      [] level = "info" -> 1
      [] level = "warn" -> 2
      [] level = "error" -> 3

\* The messages of the requests that pass through the logger.
LoggedMessages == {<<>>, <<"h", "i">>}

\* createLogger's log(level, entry) with the mutated comparison.
logAboveMin(entries, level, entry) ==
    IF LOG_LEVEL_ORDER(level) > LOG_LEVEL_ORDER(loggerOptions.level)
    THEN Append(entries, [entry EXCEPT !.level = level])
    ELSE entries

\* createLogger's log(level, entry): hands the entry to the handler when
\* the level is at least the minimum.
log(entries, level, entry) ==
    IF LOG_LEVEL_ORDER(level) >= LOG_LEVEL_ORDER(loggerOptions.level)
    THEN Append(entries, [entry EXCEPT !.level = level])
    ELSE entries

LogEntry(k, event, message, error) ==
    [run |-> k, level |-> "info", event |-> event, message |-> message, error |-> error]

EventsOf(entries, k) ==
    LET mine == SelectSeq(entries, LAMBDA e : e.run = k)
    IN  [j \in 1..Len(mine) |-> mine[j].event]

\* execute, up to its await of next(): the chat.request entry, then next().
loggerExecute(message) ==
    /\ Len(loggerRuns) < MaxLoggerCalls
    /\ LET k == Len(loggerRuns) + 1
           entries == log(logEntries, "info",
                          LogEntry(k, "chat.request",
                                   IF loggerOptions.logContent THEN message ELSE None,
                                   None))
       IN  /\ logEntries' = entries
           /\ loggerRuns' = Append(loggerRuns,
                 [status |-> "awaiting", before |-> EventsOf(entries, k),
                  proceed |-> FALSE, error |-> None, thrown |-> None])
    /\ UNCHANGED loggerOptions
    /\ UNCHANGED besidesLogger

\* next() resolves: chat.response or chat.blocked, and the result is returned.
nextResolves(k, proceed, error) ==
    /\ k \in 1..Len(loggerRuns)
    /\ loggerRuns[k].status = "awaiting"
    /\ logEntries' =
          IF proceed
          THEN log(logEntries, "info", LogEntry(k, "chat.response", None, None))
          ELSE log(logEntries, "warn", LogEntry(k, "chat.blocked", None, error))
    /\ loggerRuns' = [loggerRuns EXCEPT ![k].status = "returned",
                                        ![k].proceed = proceed,
                                        ![k].error = error]
    /\ UNCHANGED loggerOptions
    /\ UNCHANGED besidesLogger

\* next() rejects: chat.error, and the error is thrown again.
nextRejects(k, error) ==
    /\ k \in 1..Len(loggerRuns)
    /\ loggerRuns[k].status = "awaiting"
    /\ logEntries' = log(logEntries, "error", LogEntry(k, "chat.error", None, error))
    /\ loggerRuns' = [loggerRuns EXCEPT ![k].status = "threw",
                                        ![k].error = error,
                                        ![k].thrown = error]
    /\ UNCHANGED loggerOptions
    /\ UNCHANGED besidesLogger

\* SpecLogger: a logger created with some options is run by requests that
\* may overlap; each next() resolves either way or rejects.
InitLogger ==
    /\ IdleEngine
    /\ NoLimiter /\ NoFilter /\ NoPipeline /\ NoTruncation /\ NoWindow
    /\ MiddleIdle /\ NoHandler
    /\ loggerOptions \in [level : LogLevels, logContent : BOOLEAN]
    /\ logEntries = <<>>
    /\ loggerRuns = <<>>

NextLogger ==
    \/ \E message \in LoggedMessages : loggerExecute(message)
    \/ \E k \in 1..MaxLoggerCalls :
          \/ nextResolves(k, TRUE, None)
          \/ \E error \in BlockTexts : nextResolves(k, FALSE, error)
          \/ nextRejects(k, ToolErrorMessage)

SpecLogger == InitLogger /\ [][NextLogger]_vars

(***************************************************************************)
(* Properties of the logger middleware.                                    *)
(***************************************************************************)
TerminalEvent(run) ==
    CASE run.status = "threw" -> "chat.error"
      [] run.status = "returned" /\ run.proceed -> "chat.response"
      [] run.status = "returned" /\ ~run.proceed -> "chat.blocked"

\* C31: at the default level each request gives exactly one chat.request
\* entry before next() is called and exactly one terminal entry after it:
\* chat.response, chat.blocked or chat.error as next() proceeded, blocked
\* or threw, and what it threw is thrown again.
C31_OneRequestEntryOneTerminalEntry ==
    loggerOptions.level = "info" =>
        \A k \in 1..Len(loggerRuns) :
            /\ loggerRuns[k].before = <<"chat.request">>
            /\ EventsOf(logEntries, k) =
                  IF loggerRuns[k].status = "awaiting" THEN <<"chat.request">>
                  ELSE <<"chat.request", TerminalEvent(loggerRuns[k])>>
            /\ loggerRuns[k].status = "threw" => loggerRuns[k].thrown = ToolErrorMessage

C31_Witness ==
    /\ loggerOptions.level = "info"
    /\ Len(loggerRuns) = 2
    /\ \E k \in 1..2 : loggerRuns[k].status = "threw"
    /\ \E k \in 1..2 : loggerRuns[k].status = "returned" /\ ~loggerRuns[k].proceed


(***************************************************************************)
(* Properties of estimateMessagesTokens, on the arguments of SpecTruncate. *)
(***************************************************************************)
\* Ceiling of a / 4, by cases on the remainder.
Quarter(a) == IF a % 4 = 0 THEN a \div 4 ELSE a \div 4 + 1

Named(msgs) == {i \in 1..Len(msgs) : msgs[i].name # None}

\* The sum over the messages of ceil(len(content) / 4) + 4.
ContentSum(msgs) == SeqSum([i \in 1..Len(msgs) |-> Quarter(Len(msgs[i].content)) + 4])

\* The sum over the named messages of ceil(len(name) / 4) + 1.
NameSum(msgs) ==
    SeqSum([i \in 1..Len(msgs) |->
               IF i \in Named(msgs) THEN Quarter(Len(msgs[i].name)) + 1 ELSE 0])

\* C32: estimateMessagesTokens(messages) is the sum of ceil(len(content) / 4)
\* + 4 over the messages plus exactly 1 for each message that has a name,
\* whatever the name's length.
C32_NameAddsExactlyOne ==
    truncOutput.returned =>
        estimateMessagesTokens(truncInput.messages) =
            ContentSum(truncInput.messages) + Cardinality(Named(truncInput.messages))

\* C32, amended: a message with a name adds ceil(len(name) / 4) + 1.
C32_NameAddsItsTokensPlusOne ==
    truncOutput.returned =>
        estimateMessagesTokens(truncInput.messages) =
            ContentSum(truncInput.messages) + NameSum(truncInput.messages)

C32_Witness ==
    /\ truncOutput.returned
    /\ Cardinality(Named(truncInput.messages)) = 2
    /\ Len(truncInput.messages) = 3
    /\ estimateMessagesTokens(truncInput.messages) = 22


(***************************************************************************)
(* Properties of overlapping SummaryMemory.save calls.                     *)
(***************************************************************************)
Elements(s) == {s[j] : j \in 1..Len(s)}

\* The messages that were handed to the summarizer by some save call.
HandedToSummarizer(id) ==
    UNION {Elements(summarySaves[j].toSummarize) :
              j \in {n \in 1..Len(summarySaves) : summarySaves[n].id = id}}

\* C33: once the save calls on a conversation id have completed, however
\* they interleaved, every message passed to one of them is in the raw
\* store or was in the input handed to the summarizer.
C33_NoSavedMessageDropped ==
    (\A k \in 1..Len(summarySaves) : summarySaves[k].status = "done") =>
        \A k \in 1..Len(summarySaves) :
            Elements(summarySaves[k].messages) \subseteq
                Elements(summaryStore[summarySaves[k].id])
                \cup HandedToSummarizer(summarySaves[k].id)


(***************************************************************************)
(* ChatEngine turns whose message is large next to config.memory.maxTokens.*)
(***************************************************************************)
\* A message whose estimate alone exceeds config.memory.maxTokens by one.
LongText == [i \in 1..(4 * (MemoryMaxTokens - 3)) |-> "x"]

TurnTexts == {<<"h", "i">>, LongText}

\* SpecLong: the host may store a message and issues one chat() or one
\* stream() call on the configured engine, with a short or a long message.
NextLong ==
    \/ \E id \in ClientConvIds : seedConversation(id)
    \/ \E kind \in {"chat", "stream"} : StartWith("r1", kind, ClientConvIds, TurnTexts)
    \/ ChatSteps("r1")
    \/ StreamSteps("r1")

SpecLong == InitConfigured /\ [][NextLong]_vars

\* The call has asked the provider for a completion or a stream.
ReachedProvider(r) ==
    \E i \in Events(r) : trace[r][i].ev \in {"provider.complete", "provider.stream"}

\* C34: on every chat() or stream() turn that reaches the provider, the
\* request's message list ends with that turn's user message, whatever the
\* message's estimated size.
C34_RequestEndsWithUserMessage ==
    \A r \in Requests :
        ReachedProvider(r) =>
            /\ loc[r].messages # <<>>
            /\ loc[r].messages[Len(loc[r].messages)] =
                  createMessage(MsgId(r, "user", 0), "user", rq[r].message)


(***************************************************************************)
(* Further properties of the rate limiter.                                 *)
(***************************************************************************)
\* The calls for `key` from the i-th to the j-th entry of rateLog that were
\* allowed.  A call begins at `start` and has taken its token at `at`: an
\* interval that holds the calls i to j is at least at[j] - start[i] long.
AllowedBetween(key, i, j) == {n \in CallsOf(key) : i <= n /\ n <= j /\ rateLog[n].proceed}

\* floor(T / (windowMs / maxRequests)) for a whole number T of milliseconds.
RefillsWithin(T) == (T * rateConfig.maxRequests) \div rateConfig.windowMs

NextCallOf(key, i) ==
    CHOOSE j \in CallsOf(key) : j > i /\ \A n \in CallsOf(key) : n > i => j <= n

\* The call at position i was rejected and the next request for its id
\* came at least the announced wait after the rejection.
RetriedAfterWait(i) ==
    /\ ~rateLog[i].proceed
    /\ \E j \in CallsOf(rateLog[i].key) : j > i
    /\ rateLog[NextCallOf(rateLog[i].key, i)].start
          >= rateLog[i].waitAt + rateLog[i].retryAfterMs

\* C36: after a request is rejected with 'Retry after X ms', the next
\* request for the same conversation id, made at least X ms later, is
\* allowed.
C36_RetryAfterWaitIsAllowed ==
    \A i \in 1..Len(rateLog) :
        RetriedAfterWait(i) => rateLog[NextCallOf(rateLog[i].key, i)].proceed

C36_Witness ==
    \E i \in 1..Len(rateLog) :
        /\ RetriedAfterWait(i)
        /\ rateLog[i].retryAfterMs > 0
        /\ rateLog[NextCallOf(rateLog[i].key, i)].start
              = rateLog[i].waitAt + rateLog[i].retryAfterMs
        /\ rateLog[NextCallOf(rateLog[i].key, i)].proceed


(***************************************************************************)
(* ChatEngine with the rate limiter as its only middleware.                *)
(***************************************************************************)
LimitedConfigs == {[windowMs |-> 4, maxRequests |-> 1], [windowMs |-> 4, maxRequests |-> 2]}

DecimalDigits == <<"0", "1", "2", "3", "4", "5", "6", "7", "8", "9">>

\* String(n) for a natural number.
RECURSIVE Decimal(_)
Decimal(n) ==
    IF n < 10 THEN <<DecimalDigits[n + 1]>>
    ELSE Decimal(n \div 10) \o <<DecimalDigits[(n % 10) + 1]>>

\* `Rate limit exceeded. Retry after ${retryAfterMs}ms`
RateLimitExceeded(ms) ==
    <<"R", "a", "t", "e", " ", "l", "i", "m", "i", "t", " ", "e", "x", "c", "e", "e", "d",
      "e", "d", ".", " ", "R", "e", "t", "r", "y", " ", "a", "f", "t", "e", "r", " ">>
    \o Decimal(ms) \o <<"m", "s">>

\* The rate limiter's execute as the middleware of call r: the key is the
\* id of the conversation the engine resolved; it returns next() when the
\* request is allowed and proceed=false with the error text otherwise.
RateLimiterExecutes(r) ==
    /\ pc[r] = "mw"
    /\ \E d1 \in 0..1, d2 \in 0..1 :
         LET key == loc[r].conv
             name == middlewares[loc[r].idx].name
         IN  /\ clock + d1 + d2 <= MaxTime
             /\ buckets[key].exists => d1 = 0
             /\ \E res \in {Consumed(key, d1, d2)} :
                  /\ Served(key, d1, d2, res)
                  /\ CommitEngine(r,
                        IF res.allowed
                        THEN CallNext(Log(Bundle(r), "middleware", name, "next"), loc[r].idx)
                        ELSE [Log(Bundle(r), "middleware", name, "block")
                                 EXCEPT !.pc = "pipelineDone",
                                        !.loc.mwResult =
                                            [proceed |-> FALSE,
                                             error |-> RateLimitExceeded(res.retryAfterMs)]])
    /\ UNCHANGED rq
    /\ UNCHANGED <<filterVars, pipelineVars, truncVars, windowVars, laterVars>>

\* SpecLimited: two chat() calls, with or without a conversation id, on an
\* engine whose only middleware is a rate limiter.
InitLimited ==
    /\ initialized = FALSE
    /\ middlewares = <<[name |-> MwNames[1], priority |-> <<-100>>]>>
    /\ plugins = <<>>
    /\ tools = [n \in ToolNames |-> "absent"]
    /\ conversations = [id \in ConvIds |-> NoConv]
    /\ pc = [r \in Requests |-> "idle"]
    /\ rq = [r \in Requests |-> IdleRequest]
    /\ loc = [r \in Requests |-> IdleLocals]
    /\ out = [r \in Requests |-> IdleOutcome]
    /\ trace = [r \in Requests |-> <<>>]
    /\ yielded = [r \in Requests |-> <<>>]
    /\ reader = [r \in Requests |-> NoReader]
    /\ NoFilter /\ NoPipeline /\ NoTruncation /\ NoWindow /\ LaterIdle
    /\ rateConfig \in LimitedConfigs
    /\ refillRateMs = RefillRate(rateConfig)
    /\ buckets = [k \in ConvIds |-> NoBucket]
    /\ clock = 0
    /\ rateLog = <<>>

NextLimited ==
    \/ \E r \in Requests :
          StartWith(r, "chat", ClientConvIds \cup {NoConvId}, {<<"h", "i">>})
    \/ \E r \in Requests :
          \/ InitResolved(r)
          \/ RateLimiterExecutes(r)
          \/ PipelineResolved(r)
          \/ CompleteResolves(r)
          \/ CompleteThrows(r)
    \/ Tick(rateConfig.windowMs)

SpecLimited == InitLimited /\ [][NextLimited]_vars

Anonymous(r) == rq[r].kind = "chat" /\ rq[r].conversationId = NoConvId

Abandoned(r) ==
    /\ rq[r].kind = "stream"
    /\ \/ out[r].status = "broken"
       \/ out[r].status = "threw" /\ loc[r].prov = "threw"

\* C38: when the consumer abandons a stream() sequence before it is
\* exhausted, or the provider's stream throws, the conversation keeps the
\* request's user message and gains no assistant message, even for token
\* text already delivered.
C38_AbandonedStreamKeepsUserMessageOnly ==
    \A r \in Requests :
        Abandoned(r) =>
            /\ StoredBy(r, "user") = <<createMessage(MsgId(r, "user", 0), "user", rq[r].message)>>
            /\ StoredBy(r, "assistant") = <<>>

\* A stream that threw after it had delivered token text.
C38_Witness ==
    /\ Abandoned("r1")
    /\ out["r1"].status = "threw"
    /\ TokenText(yielded["r1"]) # <<>>
    /\ StoredBy("r1", "assistant") = <<>>


(***************************************************************************)
(* ChatEngine with a plugin whose onBeforeChat hook sets the system        *)
(* prompt (src/plugins/system-prompt.ts, createSystemPromptPlugin).        *)
(***************************************************************************)
\* activePersona.systemPrompt
PersonaPrompt == <<"p", "e", "r">>

\* The ways a hook sets conversation.metadata.systemPrompt in the context
\* it returns: on a copy of the conversation, as createSystemPromptPlugin
\* does, or on the conversation object it was given.
HookStyles == {"copy", "inPlace"}

\* The awaited onBeforeChat hook resolves to a context whose conversation
\* carries PersonaPrompt; chat() goes on with the next hook or the pipeline.
SystemPromptHookSettles(r, how) ==
    /\ pc[r] = "before"
    /\ LET s == Log(Bundle(r), "onBeforeChat", plugins[loc[r].idx].name, how)
           stored == IF how = "inPlace"
                     THEN [s EXCEPT !.convs[loc[r].conv].systemPrompt = PersonaPrompt]
                     ELSE s
       IN  Commit(r, BeforeFrom(stored, loc[r].idx + 1))
    /\ UNCHANGED rq

\* SpecPrompt: two chat() calls that may overlap on an engine with one
\* plugin, whose only hook is onBeforeChat, and no middleware.
InitPrompt ==
    /\ initialized = FALSE
    /\ middlewares = <<>>
    /\ plugins = <<[name |-> PluginNames[1], hooks |-> {"onBeforeChat"}]>>
    /\ tools = [n \in ToolNames |-> "absent"]
    /\ conversations = [id \in ConvIds |-> NoConv]
    /\ pc = [r \in Requests |-> "idle"]
    /\ rq = [r \in Requests |-> IdleRequest]
    /\ loc = [r \in Requests |-> IdleLocals]
    /\ out = [r \in Requests |-> IdleOutcome]
    /\ trace = [r \in Requests |-> <<>>]
    /\ yielded = [r \in Requests |-> <<>>]
    /\ reader = [r \in Requests |-> NoReader]
    /\ StandaloneIdle

NextPrompt ==
    \/ StartWith("r1", "chat", ClientConvIds \cup {NoConvId}, {<<"h", "i">>})
    \/ pc["r1"] # "idle" /\ StartWith("r2", "chat", ClientConvIds, {<<"h", "i">>})
    \/ \E r \in Requests :
          \/ InitResolved(r)
          \/ \E how \in HookStyles : SystemPromptHookSettles(r, how)
          \/ PipelineResolved(r)
          \/ CompleteResolves(r)
          \/ CompleteThrows(r)

SpecPrompt == InitPrompt /\ [][NextPrompt]_vars

\* An onBeforeChat hook of call r returned a context with the prompt set.
HookSetPrompt(r) ==
    \E i \in Events(r) : trace[r][i].ev = "onBeforeChat" /\ trace[r][i].res \in HookStyles

\* C39: when an onBeforeChat hook returns a context whose
\* conversation.metadata.systemPrompt it has set, the system message sent
\* to the provider on that turn carries that prompt.
C39_HookPromptReachesProvider ==
    \A r \in Requests :
        HookSetPrompt(r) /\ ReachedProvider(r) =>
            /\ loc[r].messages # <<>>
            /\ loc[r].messages[1].role = "system"
            /\ loc[r].messages[1].content = PersonaPrompt


(***************************************************************************)
(* StreamHandler (src/streaming/stream-handler.ts).  handling.yielded      *)
(* records each chunk handed to the consumer and whether abort() had been  *)
(* called by then.                                                         *)
(***************************************************************************)
MaxSourceChunks == 2

\* The chunks a source gives.
SourceChunks ==
    {[type |-> "token", data |-> <<"a">>], [type |-> "done", data |-> None],
     [type |-> "error", data |-> ToolErrorMessage]}

\* What a source holds when handle() is called on it.
Sources == UNION {[1..n -> SourceChunks] : n \in 0..MaxSourceChunks}

\* What an onChunk callback does besides looking at the chunk: nothing, or
\* it calls abort() on the handler.
CallbackKinds == {"observe", "abort"}

\* A handler's state: [aborted, heartbeat, run].
Handler == [aborted |-> abortController, heartbeat |-> heartbeatInterval, run |-> handling]

\* StreamHandler.stopHeartbeat
stopHeartbeat(h) == [h EXCEPT !.heartbeat = FALSE]

\* StreamHandler.startHeartbeat, with the default heartbeatIntervalMs > 0
startHeartbeat(h) == [h EXCEPT !.heartbeat = TRUE]

\* StreamHandler.abort
abortHandler(h) == stopHeartbeat([h EXCEPT !.aborted = TRUE])

\* The loop is left (break, return or throw): the finally block runs.
Leave(h, how) == stopHeartbeat([h EXCEPT !.run.pc = how])

\* The onChunk callbacks are called in order with the chunk.
RECURSIVE RunCallbacks(_, _)
RunCallbacks(h, callbacks) ==
    IF callbacks = <<>> THEN h
    ELSE RunCallbacks(IF Head(callbacks) = "abort" THEN abortHandler(h) ELSE h,
                      Tail(callbacks))

\* handle, lines 307-316: the source has given `chunk`.
Received(h, chunk) ==
    IF h.aborted THEN Leave(h, "done")
    ELSE LET called == RunCallbacks(h, onChunkCallbacks)
         IN  [called EXCEPT !.run.pc = "yielded", !.run.chunk = chunk,
                            !.run.yielded =
                                Append(@, [chunk |-> chunk, aborted |-> called.aborted])]

\* handle, lines 318-332: the consumer has asked for the next chunk.
Resumed(h) ==
    IF h.run.chunk.type \in {"done", "error"} THEN Leave(h, "done")
    ELSE [h EXCEPT !.run.pc = "awaitSource"]

SetHandler(h) ==
    /\ abortController' = h.aborted
    /\ heartbeatInterval' = h.heartbeat
    /\ handling' = h.run
    /\ UNCHANGED onChunkCallbacks
    /\ UNCHANGED besidesHandler

\* handle(source) and the consumer's first pull: the heartbeat starts and
\* the source is asked for a chunk.
handle(source) ==
    /\ handling.pc = "idle"
    /\ SetHandler(startHeartbeat([Handler EXCEPT !.run.pc = "awaitSource",
                                                 !.run.source = source]))

SourceYields ==
    /\ handling.pc = "awaitSource"
    /\ handling.source # <<>>
    /\ SetHandler(Received([Handler EXCEPT !.run.source = Tail(@)], Head(handling.source)))

SourceReturns ==
    /\ handling.pc = "awaitSource"
    /\ handling.source = <<>>
    /\ SetHandler(Leave(Handler, "done"))

SourceThrows ==
    /\ handling.pc = "awaitSource"
    /\ SetHandler(Leave(Handler, "threw"))

HandlerConsumerNext ==
    /\ handling.pc = "yielded"
    /\ SetHandler(Resumed(Handler))

\* The consumer breaks out of its loop: return() at the yield.
HandlerConsumerBreak ==
    /\ handling.pc = "yielded"
    /\ SetHandler(Leave(Handler, "done"))

\* The host calls abort(), before handle() or between two steps of it.
abort ==
    /\ ~abortController
    /\ SetHandler(abortHandler(Handler))

\* SpecHandler: one handle() call on a StreamHandler with some onChunk
\* callbacks registered; the host may call abort() at any moment.
InitHandler ==
    /\ IdleEngine
    /\ NoLimiter /\ NoFilter /\ NoPipeline /\ NoTruncation /\ NoWindow
    /\ MiddleIdle /\ NoLogger
    /\ abortController = FALSE
    /\ heartbeatInterval = FALSE
    /\ onChunkCallbacks \in {<<>>} \cup {<<kind>> : kind \in CallbackKinds}
    /\ handling = NoHandling

NextHandler ==
    \/ \E source \in Sources : handle(source)
    \/ SourceYields
    \/ SourceReturns
    \/ SourceThrows
    \/ HandlerConsumerNext
    \/ HandlerConsumerBreak
    \/ abort

SpecHandler == InitHandler /\ [][NextHandler]_vars

(***************************************************************************)
(* Properties of StreamHandler.handle.                                     *)
(***************************************************************************)
\* C40: handle yields no further chunk once it has yielded a done or error
\* chunk, or once abort() has been called, even if the source has more
\* chunks to give.
C40_NoChunkAfterTerminalOrAbort ==
    \A j \in 1..Len(handling.yielded) :
        /\ ~handling.yielded[j].aborted
        /\ j > 1 => handling.yielded[j - 1].chunk.type \notin {"done", "error"}

=============================================================================
